---- MODULE Spec2Model ----
(***************************************************************************)
(* openx: alias resolution, launch, termination and the batch/CLI drivers. *)
(* Strings are sequences of one-character strings, so that lower-casing,   *)
(* suffix stripping, base names and substring matching are computed the    *)
(* way the Go code computes them.  Identifiers of the OS (runtime.GOOS),   *)
(* format strings and program names of commands are plain TLA+ strings.    *)
(***************************************************************************)
EXTENDS Integers, Sequences, FiniteSets, TLC

(***************************************************************************)
(* String literals of the configurations, tests and tables.                *)
(***************************************************************************)
str_testapp == <<"t", "e", "s", "t", "a", "p", "p">>
str_vscode == <<"v", "s", "c", "o", "d", "e">>
str_code == <<"c", "o", "d", "e">>
str_Chrome == <<"C", "h", "r", "o", "m", "e">>
str_notepad == <<"n", "o", "t", "e", "p", "a", "d">>
str_safari == <<"s", "a", "f", "a", "r", "i">>
str_ta == <<"t", "a">>
str_vs == <<"v", "s">>
str_np == <<"n", "p">>
str_unknown == <<"u", "n", "k", "n", "o", "w", "n">>
str_path_TestApp_app == <<"/", "A", "p", "p", "l", "i", "c", "a", "t", "i", "o", "n", "s", "/", "T", "e", "s", "t", "A", "p", "p", ".", "a", "p", "p">>
str_testapp_exe == <<"t", "e", "s", "t", "a", "p", "p", ".", "e", "x", "e">>
str_path_VSCode_app == <<"/", "A", "p", "p", "l", "i", "c", "a", "t", "i", "o", "n", "s", "/", "V", "i", "s", "u", "a", "l", " ", "S", "t", "u", "d", "i", "o", " ", "C", "o", "d", "e", ".", "a", "p", "p">>
str_Code_exe == <<"C", "o", "d", "e", ".", "e", "x", "e">>
str_codium == <<"c", "o", "d", "i", "u", "m">>
str_path_Chrome_app == <<"/", "A", "p", "p", "l", "i", "c", "a", "t", "i", "o", "n", "s", "/", "G", "o", "o", "g", "l", "e", " ", "C", "h", "r", "o", "m", "e", ".", "a", "p", "p">>
str_google_chrome == <<"g", "o", "o", "g", "l", "e", "-", "c", "h", "r", "o", "m", "e">>
str_chrome_exe == <<"c", "h", "r", "o", "m", "e", ".", "e", "x", "e">>
str_notepad_exe == <<"n", "o", "t", "e", "p", "a", "d", ".", "e", "x", "e">>
str_path_Safari_app == <<"/", "A", "p", "p", "l", "i", "c", "a", "t", "i", "o", "n", "s", "/", "S", "a", "f", "a", "r", "i", ".", "a", "p", "p">>
str_TestApp == <<"T", "e", "s", "t", "A", "p", "p">>
str_Safari == <<"S", "a", "f", "a", "r", "i">>
str_Code == <<"C", "o", "d", "e">>
str_VisualStudioCode == <<"V", "i", "s", "u", "a", "l", " ", "S", "t", "u", "d", "i", "o", " ", "C", "o", "d", "e">>
str_AndroidStudio == <<"A", "n", "d", "r", "o", "i", "d", " ", "S", "t", "u", "d", "i", "o">>
str_studio == <<"s", "t", "u", "d", "i", "o">>
str_IntelliJIDEA == <<"I", "n", "t", "e", "l", "l", "i", "J", " ", "I", "D", "E", "A">>
str_idea == <<"i", "d", "e", "a">>
str_dot_app == <<".", "a", "p", "p">>
str_dot_exe == <<".", "e", "x", "e">>
str_empty == <<>>
str_myapp == <<"m", "y", "a", "p", "p">>
str_word == <<"w", "o", "r", "d">>
str_path_MyApp_app == <<"/", "A", "p", "p", "l", "i", "c", "a", "t", "i", "o", "n", "s", "/", "M", "y", "A", "p", "p", ".", "a", "p", "p">>
str_usr_bin_firefox == <<"/", "u", "s", "r", "/", "b", "i", "n", "/", "f", "i", "r", "e", "f", "o", "x">>
str_win_app_exe == <<"C", ":", "\\", "P", "r", "o", "g", "r", "a", "m", " ", "F", "i", "l", "e", "s", "\\", "A", "p", "p", "\\", "a", "p", "p", ".", "e", "x", "e">>
str_path_Word_app == <<"/", "A", "p", "p", "l", "i", "c", "a", "t", "i", "o", "n", "s", "/", "M", "i", "c", "r", "o", "s", "o", "f", "t", " ", "W", "o", "r", "d", ".", "a", "p", "p">>
str_libreoffice_writer == <<"l", "i", "b", "r", "e", "o", "f", "f", "i", "c", "e", " ", "-", "-", "w", "r", "i", "t", "e", "r">>
str_WINWORD_EXE == <<"W", "I", "N", "W", "O", "R", "D", ".", "E", "X", "E">>
str_MyApp == <<"M", "y", "A", "p", "p">>
str_firefox == <<"f", "i", "r", "e", "f", "o", "x">>
str_app == <<"a", "p", "p">>
str_GoogleChrome == <<"G", "o", "o", "g", "l", "e", " ", "C", "h", "r", "o", "m", "e">>
str_MicrosoftWord == <<"M", "i", "c", "r", "o", "s", "o", "f", "t", " ", "W", "o", "r", "d">>

(***************************************************************************)
(* strings package (Go standard library) on character sequences.           *)
(***************************************************************************)
UpperLetters == <<"A","B","C","D","E","F","G","H","I","J","K","L","M",
                  "N","O","P","Q","R","S","T","U","V","W","X","Y","Z">>
LowerLetters == <<"a","b","c","d","e","f","g","h","i","j","k","l","m",
                  "n","o","p","q","r","s","t","u","v","w","x","y","z">>

LowerChar(c) ==
  IF \E i \in 1..Len(UpperLetters) : UpperLetters[i] = c
  THEN LowerLetters[CHOOSE i \in 1..Len(UpperLetters) : UpperLetters[i] = c]
  ELSE c

UpperChar(c) ==
  IF \E i \in 1..Len(LowerLetters) : LowerLetters[i] = c
  THEN UpperLetters[CHOOSE i \in 1..Len(LowerLetters) : LowerLetters[i] = c]
  ELSE c

\* strings.ToLower
ToLower(s) == [i \in 1..Len(s) |-> LowerChar(s[i])]

\* strings.ToUpper
ToUpper(s) == [i \in 1..Len(s) |-> UpperChar(s[i])]

\* strings.HasPrefix
HasPrefix(s, p) == Len(p) <= Len(s) /\ SubSeq(s, 1, Len(p)) = p

\* strings.HasSuffix
HasSuffix(s, x) == Len(x) <= Len(s) /\ SubSeq(s, Len(s) - Len(x) + 1, Len(s)) = x

\* strings.TrimSuffix
TrimSuffix(s, x) == IF HasSuffix(s, x) THEN SubSeq(s, 1, Len(s) - Len(x)) ELSE s

\* strings.Contains
Contains(s, sub) ==
  \E i \in 0..(Len(s) - Len(sub)) : SubSeq(s, i + 1, i + Len(sub)) = sub

(***************************************************************************)
(* The platforms (runtime.GOOS) and path/filepath.                         *)
(***************************************************************************)
Platforms == {"darwin", "linux", "windows"}

\* os.IsPathSeparator
IsPathSeparator(os, c) == c = "/" \/ (os = "windows" /\ c = "\\")

RECURSIVE StripTrailingSeparators(_, _)
StripTrailingSeparators(os, p) ==
  IF Len(p) > 0 /\ IsPathSeparator(os, p[Len(p)])
  THEN StripTrailingSeparators(os, SubSeq(p, 1, Len(p) - 1))
  ELSE p

\* filepath.Base (paths of the model carry no Windows volume name)
Base(os, path) ==
  IF path = <<>> THEN <<".">>
  ELSE LET p == StripTrailingSeparators(os, path)
           seps == {i \in 1..Len(p) : IsPathSeparator(os, p[i])}
           last == IF seps = {} THEN 0
                   ELSE CHOOSE i \in seps : \A j \in seps : j <= i
           e == SubSeq(p, last + 1, Len(p))
       IN IF e = <<>> THEN (IF os = "windows" THEN <<"\\">> ELSE <<"/">>) ELSE e

\* filepath.Join of two elements (no "." or ".." elements occur in the model)
Join(a, b) == IF b = <<>> THEN a ELSE IF a = <<>> THEN b ELSE a \o <<"/">> \o b

(***************************************************************************)
(* Built-in tables.                                                        *)
(***************************************************************************)
\* AliasResolver.initializeSynonyms: synonym -> canonical application key
synonyms ==
     (<<"c", "o", "d", "e">> :> <<"v", "s", "c", "o", "d", "e">>)
  @@ (<<"v", "s">> :> <<"v", "i", "s", "u", "a", "l", "s", "t", "u", "d", "i", "o">>)
  @@ (<<"i", "d", "e", "a">> :> <<"i", "n", "t", "e", "l", "l", "i", "j">>)
  @@ (<<"i", "j">> :> <<"i", "n", "t", "e", "l", "l", "i", "j">>)
  @@ (<<"w", "s">> :> <<"w", "e", "b", "s", "t", "o", "r", "m">>)
  @@ (<<"p", "s">> :> <<"p", "h", "p", "s", "t", "o", "r", "m">>)
  @@ (<<"c", "l">> :> <<"c", "l", "i", "o", "n">>)
  @@ (<<"p", "c">> :> <<"p", "y", "c", "h", "a", "r", "m">>)
  @@ (<<"r", "d">> :> <<"r", "i", "d", "e", "r">>)
  @@ (<<"d", "g">> :> <<"d", "a", "t", "a", "g", "r", "i", "p">>)
  @@ (<<"r", "m">> :> <<"r", "u", "b", "y", "m", "i", "n", "e">>)
  @@ (<<"a", "c">> :> <<"a", "p", "p", "c", "o", "d", "e">>)
  @@ (<<"s", "t">> :> <<"s", "u", "b", "l", "i", "m", "e">>)
  @@ (<<"v", "i">> :> <<"v", "i", "m">>)
  @@ (<<"n", "p", "p">> :> <<"n", "o", "t", "e", "p", "a", "d", "p", "p">>)
  @@ (<<"z">> :> <<"z", "e", "d">>)
  @@ (<<"g", "c">> :> <<"c", "h", "r", "o", "m", "e">>)
  @@ (<<"f", "f">> :> <<"f", "i", "r", "e", "f", "o", "x">>)
  @@ (<<"b", "r">> :> <<"b", "r", "a", "v", "e">>)
  @@ (<<"o", "p">> :> <<"o", "p", "e", "r", "a">>)
  @@ (<<"p", "w", "s", "h">> :> <<"p", "o", "w", "e", "r", "s", "h", "e", "l", "l">>)
  @@ (<<"i", "t">> :> <<"i", "t", "e", "r", "m">>)
  @@ (<<"w", "e", "z">> :> <<"w", "e", "z", "t", "e", "r", "m">>)
  @@ (<<"a", "l">> :> <<"a", "l", "a", "c", "r", "i", "t", "t", "y">>)
  @@ (<<"p", "m">> :> <<"p", "o", "s", "t", "m", "a", "n">>)
  @@ (<<"i", "n", "s">> :> <<"i", "n", "s", "o", "m", "n", "i", "a">>)
  @@ (<<"f", "i", "g">> :> <<"f", "i", "g", "m", "a">>)
  @@ (<<"s", "k">> :> <<"s", "k", "e", "t", "c", "h">>)
  @@ (<<"n", "o", "t">> :> <<"n", "o", "t", "i", "o", "n">>)
  @@ (<<"o", "b", "s">> :> <<"o", "b", "s", "i", "d", "i", "a", "n">>)
  @@ (<<"s", "l">> :> <<"s", "l", "a", "c", "k">>)
  @@ (<<"d", "c">> :> <<"d", "i", "s", "c", "o", "r", "d">>)
  @@ (<<"t", "m">> :> <<"t", "e", "a", "m", "s">>)
  @@ (<<"z", "m">> :> <<"z", "o", "o", "m">>)
  @@ (<<"t", "p">> :> <<"t", "a", "b", "l", "e", "p", "l", "u", "s">>)
  @@ (<<"s", "p">> :> <<"s", "e", "q", "u", "e", "l">>)
  @@ (<<"d", "b">> :> <<"d", "b", "e", "a", "v", "e", "r">>)
  @@ (<<"a", "d">> :> <<"a", "n", "y", "d", "e", "s", "k">>)

\* ProcessNameExceptions: bundle name -> process name
ProcessNameExceptions ==
     (str_VisualStudioCode :> str_Code)
  @@ (str_AndroidStudio :> str_studio)
  @@ (str_IntelliJIDEA :> str_idea)

(***************************************************************************)
(* Configuration: Config{Apps, Aliases}, App{Paths, Kill}.                 *)
(***************************************************************************)
\* The application entries a configuration file of the model can hold.
AppTable ==
     (str_testapp :> [Paths |-> ("darwin" :> str_path_TestApp_app
                                 @@ "linux" :> str_testapp
                                 @@ "windows" :> str_testapp_exe),
                      Kill |-> <<str_TestApp, str_testapp>>])
  @@ (str_vscode :> [Paths |-> ("darwin" :> str_path_VSCode_app
                                @@ "linux" :> str_code
                                @@ "windows" :> str_Code_exe),
                     Kill |-> <<>>])
  @@ (str_code :> [Paths |-> ("darwin" :> str_codium
                              @@ "linux" :> str_codium
                              @@ "windows" :> str_codium),
                   Kill |-> <<>>])
  @@ (str_Chrome :> [Paths |-> ("darwin" :> str_path_Chrome_app
                                @@ "linux" :> str_google_chrome
                                @@ "windows" :> str_chrome_exe),
                     Kill |-> <<>>])
  @@ (str_notepad :> [Paths |-> ("linux" :> str_empty
                                 @@ "windows" :> str_notepad_exe),
                      Kill |-> <<>>])
  @@ (str_safari :> [Paths |-> ("darwin" :> str_path_Safari_app),
                     Kill |-> <<str_Safari>>])
  @@ (str_myapp :> [Paths |-> ("darwin" :> str_path_MyApp_app
                               @@ "linux" :> str_usr_bin_firefox
                               @@ "windows" :> str_win_app_exe),
                    Kill |-> <<>>])
  @@ (str_word :> [Paths |-> ("darwin" :> str_path_Word_app
                              @@ "linux" :> str_libreoffice_writer
                              @@ "windows" :> str_WINWORD_EXE),
                   Kill |-> <<>>])

\* The alias entries a configuration file of the model can hold.
AliasTable ==
     (str_ta :> str_testapp)
  @@ (str_vs :> str_vscode)
  @@ (str_np :> str_notepad)

\* The sets of application keys of the configuration files of the model.
AppKeySets ==
  { {},
    {str_testapp},
    {str_vscode},
    {str_testapp, str_vscode},
    {str_code, str_vscode},
    {str_code, str_Chrome},
    {str_notepad, str_safari},
    {str_testapp, str_notepad, str_safari},
    DOMAIN AppTable }

ConfigOf(keys, aliasKeys) ==
  [Apps |-> [k \in keys |-> AppTable[k]],
   Aliases |-> [a \in aliasKeys |-> AliasTable[a]]]

Configs == {ConfigOf(k, a) : k \in AppKeySets, a \in {{}, DOMAIN AliasTable}}

\* os.UserHomeDir of the environment
HomeDir == <<"/", "h", "o", "m", "e", "/", "u">>

\* expandTilde ("~user" names no user of the environment)
expandTilde(path) ==
  IF path = <<>> \/ path[1] # "~" THEN path
  ELSE IF path = <<"~">> THEN HomeDir
  ELSE IF HasPrefix(path, <<"~", "/">>) THEN Join(HomeDir, SubSeq(path, 3, Len(path)))
  ELSE path

\* App.GetLaunchPath
GetLaunchPath(os, app) ==
  IF os \in DOMAIN app.Paths /\ app.Paths[os] # <<>>
  THEN expandTilde(app.Paths[os])
  ELSE <<>>

\* deriveKillPatterns without the table of exceptions
DeriveKillPatterns_noExceptions(os, app) ==
  IF GetLaunchPath(os, app) = <<>> THEN <<>>
  ELSE IF os = "darwin" /\ HasSuffix(Base(os, GetLaunchPath(os, app)), str_dot_app)
  THEN <<TrimSuffix(Base(os, GetLaunchPath(os, app)), str_dot_app)>>
  ELSE IF os = "windows" /\ HasSuffix(Base(os, GetLaunchPath(os, app)), str_dot_exe)
  THEN <<TrimSuffix(Base(os, GetLaunchPath(os, app)), str_dot_exe)>>
  ELSE <<Base(os, GetLaunchPath(os, app))>>

\* App.deriveKillPatterns
DeriveKillPatterns(os, app) ==
  LET launchPath == GetLaunchPath(os, app)
      baseName == Base(os, launchPath)
  IN IF launchPath = <<>> THEN <<>>
     ELSE IF os = "darwin" THEN
            IF HasSuffix(baseName, str_dot_app)
            THEN LET appName == TrimSuffix(baseName, str_dot_app)
                 IN IF appName \in DOMAIN ProcessNameExceptions
                       /\ ProcessNameExceptions[appName] # <<>>
                    THEN <<ProcessNameExceptions[appName]>>
                    ELSE <<appName>>
            ELSE <<baseName>>
     ELSE IF os = "windows" THEN
            IF HasSuffix(baseName, str_dot_exe)
            THEN <<TrimSuffix(baseName, str_dot_exe)>>
            ELSE <<baseName>>
     ELSE <<baseName>>

\* GetKillPatterns that puts the derived pattern before the explicit list
GetKillPatterns_derivedFirst(os, app) == DeriveKillPatterns(os, app) \o app.Kill

\* GetKillPatterns that always derives, ignoring the explicit kill list
GetKillPatterns_derivedOnly(os, app) == DeriveKillPatterns(os, app)

\* App.GetKillPatterns
GetKillPatterns(os, app) ==
  IF Len(app.Kill) > 0 THEN app.Kill ELSE DeriveKillPatterns(os, app)

(***************************************************************************)
(* AliasResolver.Resolve                                                   *)
(***************************************************************************)
NotFound == [target |-> <<>>, found |-> FALSE]

\* Resolve without strings.ToLower
Resolve_caseSensitive(os, cfg, alias) ==
  LET base == IF alias \in DOMAIN synonyms THEN synonyms[alias] ELSE alias
  IN IF base \in DOMAIN cfg.Apps
        /\ os \in DOMAIN cfg.Apps[base].Paths
        /\ cfg.Apps[base].Paths[os] # <<>>
     THEN [target |-> cfg.Apps[base].Paths[os], found |-> TRUE]
     ELSE NotFound

Resolve(os, cfg, alias) ==
  LET lower == ToLower(alias)
      base == IF lower \in DOMAIN synonyms THEN synonyms[lower] ELSE lower
  IN IF base \in DOMAIN cfg.Apps
        /\ os \in DOMAIN cfg.Apps[base].Paths
        /\ cfg.Apps[base].Paths[os] # <<>>
     THEN [target |-> cfg.Apps[base].Paths[os], found |-> TRUE]
     ELSE NotFound

(***************************************************************************)
(* Errors and printed lines: a format string with its string arguments     *)
(* (fmt.Errorf, fmt.Printf), a count for %d and the wrapped cause for %w.  *)
(***************************************************************************)
Err(f, a) == [fmt |-> f, args |-> a, n |-> 0, cause |-> ""]
ErrCount(f, k) == [fmt |-> f, args |-> <<>>, n |-> k, cause |-> ""]
ErrWrap(f, a, c) == [fmt |-> f, args |-> a, n |-> 0, cause |-> c]
nil == Err("", <<>>)
Line(f, a) == [fmt |-> f, args |-> a]

(***************************************************************************)
(* The operating system: the process table (command lines of the running   *)
(* processes) and the commands the program runs (exec.Command), in order.  *)
(* A world is [running, cmds]; a command result is [w, ok].                *)
(***************************************************************************)
\* cmd.Run(): the program waits for the command to end
RunCmd(prog, target) == [prog |-> prog, target |-> target, args |-> <<>>, wait |-> TRUE]

\* cmd.Start(): the program does not wait for the child
StartCmd(prog, target, args) == [prog |-> prog, target |-> target, args |-> args, wait |-> FALSE]

\* Command lines (image names on Windows) of the processes of the model.
Procs(os) ==
  IF os = "windows"
  THEN {str_testapp_exe, str_Code_exe, str_notepad_exe}
  ELSE {str_TestApp, str_testapp, str_code, str_Safari}

\* pgrep -f / pkill -f match the pattern anywhere in the command line
PgrepMatches(running, pattern) == {p \in running : Contains(p, pattern)}

\* tasklist /FI "IMAGENAME eq <pattern>*": image names are compared without case
TasklistMatches(running, pattern) ==
  {p \in running : HasPrefix(ToLower(p), ToLower(pattern))}

\* taskkill /IM <image>: image names are compared without case
TaskkillMatches(running, image) == {p \in running : ToLower(p) = ToLower(image)}

\* A kill command ran: its victims are gone, and it fails when it had none
killCommand(w, victims, cmd) ==
  [w |-> [running |-> w.running \ victims, cmds |-> Append(w.cmds, cmd)],
   ok |-> victims # {}]

\* exec.Command("pkill", "-f", pattern).Run(): signals every match, fails without one
pkill(w, pattern) == killCommand(w, PgrepMatches(w.running, pattern), RunCmd("pkill", pattern))

\* exec.Command("taskkill", "/F", "/IM", image).Run()
taskkill(w, image) == killCommand(w, TaskkillMatches(w.running, image), RunCmd("taskkill", image))

\* The outcomes of a graceful quit request the environment decides: whether
\* osascript reports success, and the processes that do not quit when asked.
QuitOutcomes(os, procs) ==
  IF os = "darwin"
  THEN [quitOk : BOOLEAN, stubborn : SUBSET procs]
  ELSE {[quitOk |-> FALSE, stubborn |-> {}]}

\* quitMacOSApp: osascript asks the application(s) named like the pattern to quit
quitMacOSApp(w, q, appName) ==
  [w |-> [running |-> IF q.quitOk
                      THEN w.running \ (PgrepMatches(w.running, appName) \ q.stubborn)
                      ELSE w.running,
          cmds |-> Append(w.cmds, RunCmd("osascript", appName))],
   ok |-> q.quitOk]

\* isProcessRunning
isProcessRunning(os, procs, pattern) ==
  IF os \in {"darwin", "linux"} THEN PgrepMatches(procs, pattern) # {}
  ELSE IF os = "windows"
  THEN \E p \in TasklistMatches(procs, pattern) : Contains(p, pattern)
  ELSE FALSE

\* killMacOS after the graceful quit returned r: pkill only when the quit failed
killMacOSQuit(r, pattern) == IF r.ok THEN r ELSE pkill(r.w, pattern)

\* killMacOS (closer.go)
killMacOS(w, q, pattern) == killMacOSQuit(quitMacOSApp(w, q, pattern), pattern)

\* killAllMacOS after the graceful quit returned r: pkill when the quit failed or
\* a match is left
killAllMacOSQuit(r, pattern) ==
  IF r.ok /\ ~isProcessRunning("darwin", r.w.running, pattern) THEN r
  ELSE pkill(r.w, pattern)

\* killAllMacOS (kill-all revision)
killAllMacOS(w, q, pattern) == killAllMacOSQuit(quitMacOSApp(w, q, pattern), pattern)

\* killLinux / killAllLinux
killLinux(w, pattern) == pkill(w, pattern)

\* killWindows after taskkill with the .exe suffix returned r: then without it
killWindowsExe(r, pattern) == IF r.ok THEN r ELSE taskkill(r.w, pattern)

\* killWindows / killAllWindows
killWindows(w, pattern) == killWindowsExe(taskkill(w, pattern \o str_dot_exe), pattern)

\* killByPattern
killByPattern(os, w, q, pattern) ==
  IF os = "darwin" THEN killMacOS(w, q, pattern)
  ELSE IF os = "linux" THEN killLinux(w, pattern)
  ELSE IF os = "windows" THEN killWindows(w, pattern)
  ELSE [w |-> w, ok |-> FALSE]

\* killAllByPattern
killAllByPattern(os, w, q, pattern) ==
  IF os = "darwin" THEN killAllMacOS(w, q, pattern)
  ELSE IF os = "linux" THEN killLinux(w, pattern)
  ELSE IF os = "windows" THEN killWindows(w, pattern)
  ELSE [w |-> w, ok |-> FALSE]

(***************************************************************************)
(* loadConfig: the configuration file as it is on disk.                    *)
(***************************************************************************)
\* The states of the file that make loadConfig fail.
BrokenStates == {"missing", "unreadable", "malformed"}

\* loadConfig that takes a missing file for an empty configuration
loadConfig_missingIsEmpty(file) ==
  IF file.state \in {"ok", "missing"}
  THEN [err |-> nil, config |-> [Apps |-> file.Apps, Aliases |-> file.Aliases]]
  ELSE [err |-> Err("failed to read config file: %w", <<>>),
        config |-> [Apps |-> <<>>, Aliases |-> <<>>]]

\* loadConfig
loadConfig(file) ==
  IF file.state = "missing"
  THEN [err |-> Err("config file not found at %s (run 'openx doctor' to create it)", <<>>),
        config |-> [Apps |-> <<>>, Aliases |-> <<>>]]
  ELSE IF file.state = "unreadable"
  THEN [err |-> Err("failed to read config file: %w", <<>>),
        config |-> [Apps |-> <<>>, Aliases |-> <<>>]]
  ELSE IF file.state = "malformed"
  THEN [err |-> Err("failed to parse config file: %w", <<>>),
        config |-> [Apps |-> <<>>, Aliases |-> <<>>]]
  ELSE [err |-> nil, config |-> [Apps |-> file.Apps, Aliases |-> file.Aliases]]

\* lookupApp that reports an alias of a missing application as an unknown name
lookupApp_aliasAsUnknown(cfg, alias) ==
  IF alias \in DOMAIN cfg.Apps THEN [err |-> nil, found |-> TRUE, app |-> cfg.Apps[alias]]
  ELSE IF alias \in DOMAIN cfg.Aliases /\ cfg.Aliases[alias] \in DOMAIN cfg.Apps
  THEN [err |-> nil, found |-> TRUE, app |-> cfg.Apps[cfg.Aliases[alias]]]
  ELSE [err |-> Err("unknown app: %s", <<alias>>),
        found |-> FALSE, app |-> [Paths |-> <<>>, Kill |-> <<>>]]

\* The lookup CloseApp and LaunchApp share: the application key, else the alias.
\* [err, app]
lookupApp(cfg, alias) ==
  IF alias \in DOMAIN cfg.Apps THEN [err |-> nil, found |-> TRUE, app |-> cfg.Apps[alias]]
  ELSE IF alias \in DOMAIN cfg.Aliases
  THEN IF cfg.Aliases[alias] \in DOMAIN cfg.Apps
       THEN [err |-> nil, found |-> TRUE, app |-> cfg.Apps[cfg.Aliases[alias]]]
       ELSE [err |-> Err("alias '%s' points to unknown app '%s'",
                         <<alias, cfg.Aliases[alias]>>),
             found |-> FALSE, app |-> [Paths |-> <<>>, Kill |-> <<>>]]
  ELSE [err |-> Err("unknown app: %s", <<alias>>),
        found |-> FALSE, app |-> [Paths |-> <<>>, Kill |-> <<>>]]

\* What every operation returns when it fails before touching the machine.
Failed(e, w) == [err |-> e, out |-> <<>>, w |-> w]

(***************************************************************************)
(* CloseApp (internal/core/closer.go): the loop stops at the first pattern *)
(* whose kill command succeeded.  A result is [err, out, w].               *)
(***************************************************************************)
RECURSIVE closeLoop(_, _, _, _, _)
RECURSIVE closeLoopKilled(_, _, _, _, _)

\* The loop from pattern i on: [w, killed, pattern]
closeLoop(os, w, q, patterns, i) ==
  IF i > Len(patterns) THEN [w |-> w, killed |-> FALSE, pattern |-> <<>>]
  ELSE closeLoopKilled(os, q, patterns, i, killByPattern(os, w, q, patterns[i]))

\* The body of the loop once killByPattern returned r: break on success
closeLoopKilled(os, q, patterns, i, r) ==
  IF r.ok THEN [w |-> r.w, killed |-> TRUE, pattern |-> patterns[i]]
  ELSE closeLoop(os, r.w, q, patterns, i + 1)

\* CloseApp after the loop ended with k
closeReport(alias, k) ==
  [err |-> nil,
   out |-> IF k.killed THEN <<Line("Killed processes matching: %s", <<k.pattern>>)>>
           ELSE <<Line("No running processes found for: %s", <<alias>>)>>,
   w |-> k.w]

\* closePatterns that takes an empty pattern list for nothing to do
closePatterns_emptyOk(os, w, q, alias, killPatterns) ==
  closeReport(alias, closeLoop(os, w, q, killPatterns, 1))

\* CloseApp from the kill patterns on
closePatterns(os, w, q, alias, killPatterns) ==
  IF Len(killPatterns) = 0
  THEN Failed(Err("no kill patterns available for %s", <<alias>>), w)
  ELSE closeReport(alias, closeLoop(os, w, q, killPatterns, 1))

\* closeLookedUp that goes on to the kill patterns when the name was not found
closeLookedUp_ignoresMiss(os, w, q, alias, a) ==
  closePatterns(os, w, q, alias, GetKillPatterns(os, a.app))

\* CloseApp from the lookup a of the name on
closeLookedUp(os, w, q, alias, a) ==
  IF ~a.found THEN Failed(a.err, w)
  ELSE closePatterns(os, w, q, alias, GetKillPatterns(os, a.app))

\* CloseApp from the loaded configuration l on
closeLoaded(os, w, q, alias, l) ==
  IF l.err # nil THEN Failed(ErrWrap("failed to load config: %w", <<>>, l.err.fmt), w)
  ELSE closeLookedUp(os, w, q, alias, lookupApp(l.config, alias))

CloseApp(os, file, w, q, alias) == closeLoaded(os, w, q, alias, loadConfig(file))

(***************************************************************************)
(* CloseApp of the kill-all revision: every pattern is tried.              *)
(***************************************************************************)
RECURSIVE closeAllLoop(_, _, _, _, _, _)
RECURSIVE closeAllLoopKilled(_, _, _, _, _, _)

\* The loop from pattern i on: [w, out]
closeAllLoop(os, w, q, patterns, i, out) ==
  IF i > Len(patterns) THEN [w |-> w, out |-> out]
  ELSE closeAllLoopKilled(os, q, patterns, i, out, killAllByPattern(os, w, q, patterns[i]))

\* The body of the loop once killAllByPattern returned r: no break
closeAllLoopKilled(os, q, patterns, i, out, r) ==
  closeAllLoop(os, r.w, q, patterns, i + 1,
               IF r.ok
               THEN Append(out, Line("Killed all processes matching: %s", <<patterns[i]>>))
               ELSE out)

\* CloseApp after the loop ended with k
closeAllReport(alias, k) ==
  [err |-> nil,
   out |-> IF Len(k.out) > 0 THEN k.out
           ELSE <<Line("No running processes found for: %s", <<alias>>)>>,
   w |-> k.w]

closeAllPatterns(os, w, q, alias, killPatterns) ==
  IF Len(killPatterns) = 0
  THEN Failed(Err("no kill patterns available for %s", <<alias>>), w)
  ELSE closeAllReport(alias, closeAllLoop(os, w, q, killPatterns, 1, <<>>))

closeAllLookedUp(os, w, q, alias, a) ==
  IF ~a.found THEN Failed(a.err, w)
  ELSE closeAllPatterns(os, w, q, alias, GetKillPatterns(os, a.app))

closeAllLoaded(os, w, q, alias, l) ==
  IF l.err # nil THEN Failed(ErrWrap("failed to load config: %w", <<>>, l.err.fmt), w)
  ELSE closeAllLookedUp(os, w, q, alias, lookupApp(l.config, alias))

CloseAppKillAll(os, file, w, q, alias) == closeAllLoaded(os, w, q, alias, loadConfig(file))

(***************************************************************************)
(* The file system of the environment, per platform.                       *)
(***************************************************************************)
str_Contents == <<"C", "o", "n", "t", "e", "n", "t", "s">>
str_MacOS == <<"M", "a", "c", "O", "S">>
str_Electron == <<"E", "l", "e", "c", "t", "r", "o", "n">>
str_Applications == <<"/", "A", "p", "p", "l", "i", "c", "a", "t", "i", "o", "n", "s">>
str_SystemApplications ==
  <<"/", "S", "y", "s", "t", "e", "m">> \o str_Applications
str_bin_ls == <<"/", "b", "i", "n", "/", "l", "s">>
str_nope_path == <<"/", "n", "o", "p", "e">>
str_tmp == <<"/", "t", "m", "p">>

MacOSDir(app) == Join(Join(app, str_Contents), str_MacOS)

\* Regular files with an executable bit.
ExecutableFiles(os) ==
  IF os = "darwin"
  THEN {Join(MacOSDir(str_path_Safari_app), str_Safari),
        Join(MacOSDir(str_path_VSCode_app), str_Electron),
        str_bin_ls}
  ELSE IF os = "linux" THEN {str_bin_ls}
  ELSE {}

\* Directories.
Directories(os) ==
  IF os = "darwin"
  THEN {str_Applications,
        str_path_Safari_app, Join(str_path_Safari_app, str_Contents),
        MacOSDir(str_path_Safari_app),
        str_path_VSCode_app, Join(str_path_VSCode_app, str_Contents),
        MacOSDir(str_path_VSCode_app)}
  ELSE IF os = "linux" THEN {str_tmp}
  ELSE {}

\* Command names the executable search path resolves (exec.LookPath).
PathCommands(os) ==
  IF os = "linux" THEN {str_code, str_codium}
  ELSE IF os = "windows" THEN {str_Code_exe, str_notepad_exe}
  ELSE {}

\* exists: os.Stat succeeds
exists(os, path) == path \in ExecutableFiles(os) \cup Directories(os)

\* isExecutable: os.Stat succeeds and an executable bit is set (directories have one)
isExecutable(os, path) == path \in ExecutableFiles(os) \cup Directories(os)

\* cmd.Start() of exec.Command(name, ...): the name is looked up in the search
\* path when it has no separator, and must be an executable file otherwise
CanStart(os, name) ==
  IF \E i \in 1..Len(name) : IsPathSeparator(os, name[i])
  THEN name \in ExecutableFiles(os)
  ELSE name \in PathCommands(os)

\* os.ReadDir(dir): the names of the entries of dir; the model's directories
\* hold at most one entry
ReadDir(os, dir) ==
  {Base(os, p) : p \in {x \in ExecutableFiles(os) \cup Directories(os) :
                          x = Join(dir, Base(os, x))}}

\* findAppExecutable, one candidate: the executable named like the bundle, else
\* the first executable entry of Contents/MacOS
executableOf(os, macOSDir, base) ==
  IF isExecutable(os, Join(macOSDir, base))
  THEN [found |-> TRUE, path |-> Join(macOSDir, base)]
  ELSE IF \E n \in ReadDir(os, macOSDir) : isExecutable(os, Join(macOSDir, n))
  THEN [found |-> TRUE,
        path |-> Join(macOSDir,
                      CHOOSE n \in ReadDir(os, macOSDir) : isExecutable(os, Join(macOSDir, n)))]
  ELSE [found |-> FALSE, path |-> <<>>]

RECURSIVE findInCandidates(_, _, _)
RECURSIVE findInCandidate(_, _, _, _)

\* findAppExecutable: the loop over the candidates from candidate i on
findInCandidates(os, candidates, i) ==
  IF i > Len(candidates) THEN [found |-> FALSE, path |-> <<>>]
  ELSE IF ~HasSuffix(ToLower(candidates[i]), str_dot_app) \/ ~exists(os, candidates[i])
  THEN findInCandidates(os, candidates, i + 1)
  ELSE findInCandidate(os, candidates, i,
         executableOf(os, MacOSDir(candidates[i]),
                      TrimSuffix(Base(os, candidates[i]), str_dot_app)))

findInCandidate(os, candidates, i, e) ==
  IF e.found THEN e ELSE findInCandidates(os, candidates, i + 1)

\* filepath.Join(dir, name) where name may be rooted itself
JoinUnder(dir, name) ==
  IF name # <<>> /\ name[1] = "/" THEN dir \o name ELSE Join(dir, name)

findAppExecutable(os, appName) ==
  findInCandidates(os,
    <<JoinUnder(str_Applications, appName),
      JoinUnder(Join(HomeDir, SubSeq(str_Applications, 2, Len(str_Applications))), appName),
      JoinUnder(str_SystemApplications, appName),
      appName>>, 1)

(***************************************************************************)
(* Target resolution of the launch arguments.                              *)
(***************************************************************************)
str_scheme_sep == <<":", "/", "/">>

\* os.Getwd of the environment
Cwd == <<"/", "w">>

\* isURL
isURL(input) == Contains(input, str_scheme_sep)

\* The index of the last path separator of a path, 0 without one
LastSeparator(os, path) ==
  IF \E i \in 1..Len(path) : IsPathSeparator(os, path[i])
  THEN CHOOSE i \in 1..Len(path) :
         /\ IsPathSeparator(os, path[i])
         /\ \A j \in (i + 1)..Len(path) : ~IsPathSeparator(os, path[j])
  ELSE 0

\* filepath.Dir of a path without trailing separator
Dir(os, path) ==
  IF LastSeparator(os, path) = 0 THEN <<".">>
  ELSE IF LastSeparator(os, path) = 1 THEN <<path[1]>>
  ELSE SubSeq(path, 1, LastSeparator(os, path) - 1)

\* expandDot
expandDot(os, path) ==
  IF path = <<>> THEN path
  ELSE IF path = <<".">> THEN Cwd
  ELSE IF HasPrefix(path, <<".", "/">>) THEN Join(Cwd, SubSeq(path, 3, Len(path)))
  ELSE IF path = <<".", ".">> THEN Dir(os, Cwd)
  ELSE IF HasPrefix(path, <<".", ".", "/">>)
  THEN Join(Dir(os, Cwd), SubSeq(path, 4, Len(path)))
  ELSE path

\* filepath.IsAbs
IsAbs(os, path) ==
  IF os = "windows"
  THEN Len(path) >= 3 /\ path[2] = ":" /\ IsPathSeparator(os, path[3])
  ELSE path # <<>> /\ path[1] = "/"

\* resolveTarget, from the expanded path on: made absolute
absolute(os, t) == IF IsAbs(os, t) THEN t ELSE Join(Cwd, t)

\* resolveTarget
resolveTarget(os, target) ==
  IF isURL(target) THEN target
  ELSE absolute(os, expandDot(os, expandTilde(target)))

\* resolveTargets
resolveTargets(os, targets) == [i \in 1..Len(targets) |-> resolveTarget(os, targets[i])]

(***************************************************************************)
(* LaunchApp.  A result is [err, out, w].                                  *)
(***************************************************************************)
\* launchWithOpen: "open -a <app> <args>", started and not waited for
launchWithOpen(w, appPath, args) ==
  [w |-> [running |-> w.running,
          cmds |-> Append(w.cmds, StartCmd("open -a", appPath, args))],
   ok |-> TRUE]

\* exec.Command(path, args...).Start()
startDirect(os, w, path, args) ==
  IF CanStart(os, path)
  THEN [w |-> [running |-> w.running,
               cmds |-> Append(w.cmds, StartCmd("exec", path, args))],
        ok |-> TRUE]
  ELSE [w |-> w, ok |-> FALSE]

\* launchMacOSApp once findAppExecutable returned e
launchMacOSFound(w, appPath, args, e) ==
  IF ~e.found THEN launchWithOpen(w, appPath, args)
  ELSE startDirect("darwin", w, e.path, args)

\* launchMacOSApp
launchMacOSApp(w, appPath, args) ==
  launchMacOSFound(w, appPath, args, findAppExecutable("darwin", appPath))

\* executeApp
executeApp(os, w, launchPath, args) ==
  IF os = "darwin" THEN launchMacOSApp(w, launchPath, args)
  ELSE startDirect(os, w, launchPath, args)

\* isDirectPath
isDirectPath(path) == Contains(path, <<"/">>) \/ Contains(path, <<"\\">>)

\* LaunchApp and launchDirectPath once executeApp returned r
launched(name, args, r) ==
  IF ~r.ok
  THEN [err |-> ErrWrap("failed to launch %s: %w", <<name>>, "exec"), out |-> <<>>, w |-> r.w]
  ELSE [err |-> nil,
        out |-> <<Line("Launched: %s", <<name>>)>>
                \o (IF Len(args) > 0 THEN <<Line("Arguments: %v", args)>> ELSE <<>>),
        w |-> r.w]

\* launchDirectPath
launchDirectPath(os, w, appPath, args) ==
  IF ~exists(os, appPath) THEN Failed(Err("application not found: %s", <<appPath>>), w)
  ELSE launched(appPath, args, executeApp(os, w, appPath, resolveTargets(os, args)))

\* runtime.GOOS as the characters a message holds
GoosChars(os) ==
  IF os = "darwin" THEN <<"d", "a", "r", "w", "i", "n">>
  ELSE IF os = "linux" THEN <<"l", "i", "n", "u", "x">>
  ELSE <<"w", "i", "n", "d", "o", "w", "s">>

\* LaunchApp that reports a missing launch path as an unknown application
launchPathOf_unknownApp(os, w, alias, args, launchPath) ==
  IF launchPath = <<>>
  THEN Failed(Err("unknown app: %s", <<alias>>), w)
  ELSE launched(alias, args, executeApp(os, w, launchPath, resolveTargets(os, args)))

\* LaunchApp from the launch path on
launchPathOf(os, w, alias, args, launchPath) ==
  IF launchPath = <<>>
  THEN Failed(Err("no launch path configured for %s on %s", <<alias, GoosChars(os)>>), w)
  ELSE launched(alias, args, executeApp(os, w, launchPath, resolveTargets(os, args)))

\* LaunchApp from the lookup a of the name on
launchLookedUp(os, w, alias, args, a) ==
  IF ~a.found THEN Failed(a.err, w)
  ELSE launchPathOf(os, w, alias, args, GetLaunchPath(os, a.app))

\* LaunchApp from the loaded configuration l on
launchLoaded(os, w, alias, args, l) ==
  IF l.err # nil THEN Failed(ErrWrap("failed to load config: %w", <<>>, l.err.fmt), w)
  ELSE launchLookedUp(os, w, alias, args, lookupApp(l.config, alias))

\* LaunchApp that loads the configuration before it looks at the name
LaunchApp_loadsFirst(os, file, w, alias, args) ==
  IF loadConfig(file).err # nil
  THEN Failed(ErrWrap("failed to load config: %w", <<>>, loadConfig(file).err.fmt), w)
  ELSE IF isDirectPath(alias) THEN launchDirectPath(os, w, alias, args)
  ELSE launchLookedUp(os, w, alias, args, lookupApp(loadConfig(file).config, alias))

\* LaunchApp
LaunchApp(os, file, w, alias, args) ==
  IF isDirectPath(alias) THEN launchDirectPath(os, w, alias, args)
  ELSE launchLoaded(os, w, alias, args, loadConfig(file))

(***************************************************************************)
(* Batch operations.  A result is [err, out, w, calls]; calls lists the    *)
(* per-target invocations in the order they were made, each [name, err].   *)
(***************************************************************************)
Call(name, e) == [name |-> name, err |-> e]

\* The error of a batch: none, or the count of the calls that failed
batchError(f, errors) == IF errors > 0 THEN ErrCount(f, errors) ELSE nil

RECURSIVE closeMultipleLoop(_, _, _, _, _, _, _, _, _)
RECURSIVE closeMultipleNext(_, _, _, _, _, _, _, _, _)

\* closeMultipleApps: the loop from alias i on
closeMultipleLoop(os, file, w, q, aliases, i, out, calls, errors) ==
  IF i > Len(aliases)
  THEN [err |-> batchError("%d apps failed to close", errors),
        out |-> out, w |-> w, calls |-> calls]
  ELSE closeMultipleNext(os, file, q, aliases, i, out, calls, errors,
                         CloseApp(os, file, w, q, aliases[i]))

\* closeMultipleNext that gives up the batch at the first failure
closeMultipleNext_stopsAtFailure(os, file, q, aliases, i, out, calls, errors, r) ==
  IF r.err # nil
  THEN [err |-> batchError("%d apps failed to close", errors + 1),
        out |-> out \o r.out, w |-> r.w, calls |-> Append(calls, Call(aliases[i], r.err))]
  ELSE closeMultipleLoop(os, file, r.w, q, aliases, i + 1,
                         out \o r.out, Append(calls, Call(aliases[i], r.err)), errors)

\* the body of the loop once CloseApp returned r: count the error, go on
closeMultipleNext(os, file, q, aliases, i, out, calls, errors, r) ==
  closeMultipleLoop(os, file, r.w, q, aliases, i + 1,
                    out \o r.out, Append(calls, Call(aliases[i], r.err)),
                    IF r.err # nil THEN errors + 1 ELSE errors)

\* closeMultipleApps
closeMultipleApps(os, file, w, q, aliases) ==
  closeMultipleLoop(os, file, w, q, aliases, 1, <<>>, <<>>, 0)

RECURSIVE launchMultipleLoop(_, _, _, _, _, _, _, _)
RECURSIVE launchMultipleNext(_, _, _, _, _, _, _, _)

\* launchMultipleApps: the loop from alias i on
launchMultipleLoop(os, file, w, aliases, i, out, calls, errors) ==
  IF i > Len(aliases)
  THEN [err |-> batchError("%d apps failed to launch", errors),
        out |-> out, w |-> w, calls |-> calls]
  ELSE launchMultipleNext(os, file, aliases, i, out, calls, errors,
                          LaunchApp(os, file, w, aliases[i], <<>>))

\* the body of the loop once LaunchApp returned r: count the error, go on
launchMultipleNext(os, file, aliases, i, out, calls, errors, r) ==
  launchMultipleLoop(os, file, r.w, aliases, i + 1,
                     out \o r.out, Append(calls, Call(aliases[i], r.err)),
                     IF r.err # nil THEN errors + 1 ELSE errors)

\* launchMultipleApps
launchMultipleApps(os, file, w, aliases) ==
  launchMultipleLoop(os, file, w, aliases, 1, <<>>, <<>>, 0)

(***************************************************************************)
(* Doctor: RunDoctor, checkAppStatus, appExists and the two renderings.    *)
(* A report is [Apps, Summary]; a record of Apps is                        *)
(* [Name, LaunchPath, Status, KillPattern, Running].                       *)
(***************************************************************************)
\* The report before the first record.
NoReport == [Apps |-> <<>>, Summary |-> [Total |-> 0, Available |-> 0, Missing |-> 0, Running |-> 0]]

\* The printable characters in the order of their codes (without the quote
\* and the grave accent, which no string of the model holds).
CharOrder ==
  <<" ", "!", "#", "$", "%", "&", "'", "(", ")", "*", "+", ",", "-", ".", "/", "0",
    "1", "2", "3", "4", "5", "6", "7", "8", "9", ":", ";", "<", "=", ">", "?", "@",
    "A", "B", "C", "D", "E", "F", "G", "H", "I", "J", "K", "L", "M", "N", "O", "P",
    "Q", "R", "S", "T", "U", "V", "W", "X", "Y", "Z", "[", "\\", "]", "^", "_", "a",
    "b", "c", "d", "e", "f", "g", "h", "i", "j", "k", "l", "m", "n", "o", "p", "q",
    "r", "s", "t", "u", "v", "w", "x", "y", "z", "{", "|", "}", "~">>

CharCode(c) == CHOOSE i \in 1..Len(CharOrder) : CharOrder[i] = c

\* a < b as Go compares strings: by the first characters that differ
StringLess(a, b) ==
  \/ Len(a) < Len(b) /\ SubSeq(b, 1, Len(a)) = a
  \/ \E i \in 1..Len(a) :
       /\ i <= Len(b)
       /\ SubSeq(a, 1, i - 1) = SubSeq(b, 1, i - 1)
       /\ CharCode(a[i]) < CharCode(b[i])

RECURSIVE SortStrings(_)
\* sort.Strings of the keys of a map
SortStrings(keys) ==
  IF keys = {} THEN <<>>
  ELSE LET least == CHOOSE k \in keys : \A o \in keys \ {k} : StringLess(k, o)
       IN <<least>> \o SortStrings(keys \ {least})

RECURSIVE JoinStrings(_, _)
\* strings.Join
JoinStrings(list, sep) ==
  IF list = <<>> THEN <<>>
  ELSE IF Len(list) = 1 THEN list[1]
  ELSE list[1] \o sep \o JoinStrings(Tail(list), sep)

str_comma_space == <<",", " ">>
str_no_path_for == <<"(", "n", "o", " ", "p", "a", "t", "h", " ", "f", "o", "r", " ">>
str_close_paren == <<")">>
str_running_mark == <<" ", "(", "r", "u", "n", "n", "i", "n", "g", ")">>

\* %d of the small numbers of a summary
Itoa(n) ==
  IF n < 10 THEN <<CharOrder[CharCode("0") + n]>>
  ELSE <<CharOrder[CharCode("0") + (n \div 10)], CharOrder[CharCode("0") + (n % 10)]>>

\* appExists that looks every path up in the file system
appExists_fileOnly(os, path) == exists(os, path)

\* appExists: a path with a separator must exist, a command must be on PATH
appExists(os, path) ==
  IF \E i \in 1..Len(path) : path[i] \in {"/", "\\"}
  THEN exists(os, path)
  ELSE path \in PathCommands(os)

\* checkAppStatus: the loop over the kill patterns
anyPatternRunning(os, procs, killPatterns) ==
  \E i \in 1..Len(killPatterns) : isProcessRunning(os, procs, killPatterns[i])

\* checkAppStatus once the launch path is known
statusOfPath(os, procs, name, app, launchPath) ==
  IF launchPath = <<>>
  THEN [Name |-> name,
        LaunchPath |-> str_no_path_for \o GoosChars(os) \o str_close_paren,
        Status |-> "no-path",
        KillPattern |-> JoinStrings(GetKillPatterns(os, app), str_comma_space),
        Running |-> FALSE]
  ELSE [Name |-> name,
        LaunchPath |-> launchPath,
        Status |-> IF appExists(os, launchPath) THEN "available" ELSE "missing",
        KillPattern |-> JoinStrings(GetKillPatterns(os, app), str_comma_space),
        Running |-> anyPatternRunning(os, procs, GetKillPatterns(os, app))]

\* checkAppStatus
checkAppStatus(os, procs, name, app) ==
  statusOfPath(os, procs, name, app, GetLaunchPath(os, app))

\* countStatus that takes every record that is not available for missing
countStatus_noPathIsMissing(s, status) ==
  [Total |-> s.Total + 1,
   Available |-> IF status.Status = "available" THEN s.Available + 1 ELSE s.Available,
   Missing |-> IF status.Status # "available" THEN s.Missing + 1 ELSE s.Missing,
   Running |-> IF status.Running THEN s.Running + 1 ELSE s.Running]

\* RunDoctor: the summary after one more record
countStatus(s, status) ==
  [Total |-> s.Total + 1,
   Available |-> IF status.Status = "available" THEN s.Available + 1 ELSE s.Available,
   Missing |-> IF status.Status = "missing" THEN s.Missing + 1 ELSE s.Missing,
   Running |-> IF status.Running THEN s.Running + 1 ELSE s.Running]

RECURSIVE doctorLoop(_, _, _, _, _, _)
RECURSIVE doctorNext(_, _, _, _, _, _, _)

\* RunDoctor: the loop over the sorted names, from name i on
doctorLoop(os, procs, cfg, appNames, i, rep) ==
  IF i > Len(appNames) THEN rep
  ELSE doctorNext(os, procs, cfg, appNames, i, rep,
                  checkAppStatus(os, procs, appNames[i], cfg.Apps[appNames[i]]))

\* the body of the loop once checkAppStatus returned status
doctorNext(os, procs, cfg, appNames, i, rep, status) ==
  doctorLoop(os, procs, cfg, appNames, i + 1,
             [Apps |-> Append(rep.Apps, status),
              Summary |-> countStatus(rep.Summary, status)])

\* outputHuman: the lines of one application (the icon and the colour are
\* functions of the status the line carries)
humanAppLines(a) ==
  <<[fmt |-> "  %s%s%s %-15s %s%s", status |-> a.Status,
     args |-> <<a.Name, a.LaunchPath, IF a.Running THEN str_running_mark ELSE <<>>>>]>>
  \o (IF a.KillPattern # <<>>
      THEN <<[fmt |-> "    %s-- kill: %s%s", status |-> "", args |-> <<a.KillPattern>>]>>
      ELSE <<>>)

RECURSIVE humanApps(_, _)
humanApps(apps, i) ==
  IF i > Len(apps) THEN <<>> ELSE humanAppLines(apps[i]) \o humanApps(apps, i + 1)

\* outputHuman: the aliases, sorted
humanAliases(aliases, names) ==
  IF names = <<>> THEN <<>>
  ELSE <<[fmt |-> "Aliases:", status |-> "", args |-> <<>>]>>
       \o [i \in 1..Len(names) |->
             [fmt |-> "  %-10s -> %s", status |-> "", args |-> <<names[i], aliases[names[i]]>>]]

\* outputHuman: the summary
humanSummary(s) ==
  <<[fmt |-> "Summary:", status |-> "", args |-> <<>>],
    [fmt |-> "  Total: %d apps", status |-> "", args |-> <<Itoa(s.Total)>>],
    [fmt |-> "  Available: %d", status |-> "", args |-> <<Itoa(s.Available)>>],
    [fmt |-> "  Missing: %d", status |-> "", args |-> <<Itoa(s.Missing)>>],
    [fmt |-> "  Running: %d", status |-> "", args |-> <<Itoa(s.Running)>>]>>
  \o (IF s.Missing > 0
      THEN <<[fmt |-> "Note: Missing apps may need to be installed or paths updated in config.",
              status |-> "", args |-> <<>>]>>
      ELSE <<>>)

\* outputHuman
outputHuman(os, cfg, rep) ==
  <<[fmt |-> "openx doctor (%s)", status |-> "", args |-> <<GoosChars(os)>>],
    [fmt |-> "Applications:", status |-> "", args |-> <<>>]>>
  \o humanApps(rep.Apps, 1)
  \o humanAliases(cfg.Aliases, SortStrings(DOMAIN cfg.Aliases))
  \o humanSummary(rep.Summary)

\* outputJSON: the encoder writes the report as one document
outputJSON(rep) == <<[fmt |-> "json", status |-> "", args |-> <<>>]>>

\* RunDoctor once the report is made
doctorOutput(os, cfg, jsonOutput, rep) ==
  [err |-> nil, report |-> rep,
   out |-> IF jsonOutput THEN outputJSON(rep) ELSE outputHuman(os, cfg, rep)]

\* RunDoctor from the loaded configuration l on
doctorLoaded(os, procs, jsonOutput, l) ==
  IF l.err # nil
  THEN [err |-> ErrWrap("failed to load config: %w", <<>>, l.err.fmt),
        report |-> NoReport, out |-> <<>>]
  ELSE doctorOutput(os, l.config, jsonOutput,
                    doctorLoop(os, procs, l.config, SortStrings(DOMAIN l.config.Apps), 1,
                               NoReport))

\* RunDoctor
RunDoctor(os, file, procs, jsonOutput) ==
  doctorLoaded(os, procs, jsonOutput, loadConfig(file))

(***************************************************************************)
(* The command line: openx --kill alias...                                 *)
(* ox.Kill is core.CloseApp; the first failing target ends the process     *)
(* with exit status 1.  A result is [exit, out, w, calls].                 *)
(***************************************************************************)
RECURSIVE mainKillLoop(_, _, _, _, _, _, _, _)
RECURSIVE mainKillNext(_, _, _, _, _, _, _, _)

\* main, --kill: the loop from alias i on
mainKillLoop(os, file, w, q, aliases, i, out, calls) ==
  IF i > Len(aliases) THEN [exit |-> 0, w |-> w, out |-> out, calls |-> calls]
  ELSE mainKillNext(os, file, q, aliases, i, out, calls,
                    CloseApp(os, file, w, q, aliases[i]))

\* the body of the loop once ox.Kill returned r: os.Exit(1) on an error
mainKillNext(os, file, q, aliases, i, out, calls, r) ==
  IF r.err # nil
  THEN [exit |-> 1, w |-> r.w, out |-> out \o r.out,
        calls |-> Append(calls, Call(aliases[i], r.err))]
  ELSE mainKillLoop(os, file, r.w, q, aliases, i + 1,
                    out \o r.out, Append(calls, Call(aliases[i], r.err)))

\* main with the --kill flag
mainKill(os, file, w, q, aliases) == mainKillLoop(os, file, w, q, aliases, 1, <<>>, <<>>)

(***************************************************************************)
(* The command line: openx alias [args...]                                 *)
(* The first token is launched as a configured application when            *)
(* isValidAlias accepts it, and else handed to one of the two fallbacks.   *)
(* The fallbacks wait for their command (cmd.Run); whether a command that  *)
(* ran reports success is decided by the environment: o = [first, second]  *)
(* are the outcomes of the first and the second command of the call.       *)
(* A result is [exit, out, w, calls].                                      *)
(***************************************************************************)
\* exec.Command(prog, target, args...).Run()
RunCmdArgs(prog, target, args) == [prog |-> prog, target |-> target, args |-> args, wait |-> TRUE]

\* The outcomes of the commands of one call.
RunOutcomes == [first : BOOLEAN, second : BOOLEAN]

\* A command ran to its end: [w, ok]
ran(w, cmd, ok) == [w |-> [running |-> w.running, cmds |-> Append(w.cmds, cmd)], ok |-> ok]

\* isValidAlias once the configuration is loaded: the lower-cased token is an
\* application key, or the resolver resolves the token
isValidAliasLoaded(os, alias, l) ==
  IF l.err # nil THEN FALSE
  ELSE IF ToLower(alias) \in DOMAIN l.config.Apps THEN TRUE
  ELSE Resolve(os, l.config, alias).found

\* isValidAlias
isValidAlias(os, file, alias) == isValidAliasLoaded(os, alias, loadConfig(file))

\* openWithSystemDefault on Linux once xdg-open returned r: gio open replaces
\* the command when it failed; the final cmd.Run() then runs gio, or is a
\* second Run of the xdg-open command that already ran, which is an error
\* and runs nothing
openLinuxAfterXdg(o, target, r) ==
  IF r.ok THEN [w |-> r.w, ok |-> FALSE]
  ELSE ran(r.w, RunCmdArgs("gio open", target, <<>>), o.second)

\* openWithSystemDefault
openWithSystemDefault(os, w, o, target) ==
  IF os = "darwin" THEN ran(w, RunCmdArgs("open", target, <<>>), o.first)
  ELSE IF os = "linux"
  THEN openLinuxAfterXdg(o, target, ran(w, RunCmdArgs("xdg-open", target, <<>>), o.first))
  ELSE ran(w, RunCmdArgs("cmd /c start", target, <<>>), o.first)

\* openWithAppAndArgs: open -a on macOS, the application itself elsewhere
\* (which must start before it can run to its end)
openWithAppAndArgs(os, w, o, appPath, args) ==
  IF os = "darwin" THEN ran(w, RunCmdArgs("open -a", appPath, args), o.first)
  ELSE IF CanStart(os, appPath) THEN ran(w, RunCmdArgs("exec", appPath, args), o.first)
  ELSE [w |-> w, ok |-> FALSE]

\* main: a fallback returned r
mainFallback(r) ==
  [exit |-> IF r.ok THEN 0 ELSE 1, out |-> <<>>, w |-> r.w, calls |-> <<>>]

\* main: ox.RunAlias returned r
mainRunAlias(alias, r) ==
  [exit |-> IF r.err # nil THEN 1 ELSE 0, out |-> r.out, w |-> r.w,
   calls |-> <<Call(alias, r.err)>>]

\* mainLaunchValid that hands every token that is not valid to the opener
mainLaunchValid_alwaysOpener(os, file, w, o, alias, args, valid) ==
  IF valid THEN mainRunAlias(alias, LaunchApp(os, file, w, alias, args))
  ELSE mainFallback(openWithSystemDefault(os, w, o, alias))

\* main once isValidAlias returned valid
mainLaunchValid(os, file, w, o, alias, args, valid) ==
  IF valid THEN mainRunAlias(alias, LaunchApp(os, file, w, alias, args))
  ELSE IF Len(args) = 0 THEN mainFallback(openWithSystemDefault(os, w, o, alias))
  ELSE mainFallback(openWithAppAndArgs(os, w, o, alias, args))

\* main without flag: aliases[0] is the token, aliases[1:] its arguments
mainLaunch(os, file, w, o, alias, args) ==
  mainLaunchValid(os, file, w, o, alias, args, isValidAlias(os, file, alias))

(***************************************************************************)
(* Inputs of the model.                                                    *)
(***************************************************************************)
str_gc == <<"g", "c">>
str_hello == <<"h", "e", "l", "l", "o">>

\* Title-case spelling of a token: first letter upper-cased.
Capitalize(s) == [i \in 1..Len(s) |-> IF i = 1 THEN UpperChar(s[i]) ELSE s[i]]

\* Names given to the kill and launch operations.
Names == {str_testapp, str_vscode, str_code, str_Chrome, str_notepad, str_safari,
          str_ta, str_vs, str_np, str_unknown, str_empty}

\* Tokens given to the resolver: the names, a synonym, and their spellings.
ResolveTokens ==
  UNION {{n, ToUpper(n), ToLower(n), Capitalize(n)} : n \in Names \cup {str_gc}}

\* Direct paths given to the launcher.
DirectPaths == {str_bin_ls, str_nope_path, str_tmp, str_path_Safari_app}

\* Argument lists given to the launcher.
LaunchArgs == {<<>>, <<str_hello>>}

\* First tokens of the command line: the names, a synonym, other spellings of
\* keys, and direct paths.
LaunchTokens ==
  Names \cup DirectPaths \cup {str_gc, ToUpper(str_vscode), ToLower(str_Chrome), ToUpper(str_ta)}

\* Names of the batch operations, and the longest batch.
BatchNames == {str_testapp, str_ta, str_notepad, str_unknown}
MaxBatch == 2
Batches == UNION {[1..n -> BatchNames] : n \in 0..MaxBatch}

(***************************************************************************)
(* State.                                                                  *)
(***************************************************************************)
VARIABLES
  goos,        \* runtime.GOOS
  configFile,  \* the configuration file on disk
  running,     \* the process table: command lines of the running processes
  phase,       \* "idle" between invocations, "done" when one has returned
  op,          \* the invocation: [name, names, args]
  err,         \* the error it returned (nil: none)
  exit,        \* the exit status of a command-line invocation
  out,         \* the lines it printed on standard output
  cmds,        \* the commands it ran, in order
  calls,       \* the per-target calls of a batch, in order
  resolved,    \* the result of a Resolve invocation
  patterns,    \* the result of a GetKillPatterns invocation: [kill, derived]
  report,      \* the report of a doctor run
  customFile,  \* the file at the configPath of the library instance
  value        \* the configuration value an invocation was given or returned

vars == <<goos, configFile, running, phase, op, err, exit, out, cmds, calls, resolved,
          patterns, report, customFile, value>>

\* No file at the path.
NoFile == [state |-> "missing", Apps |-> <<>>, Aliases |-> <<>>]

\* No configuration value passed or returned.
NoValue == [Apps |-> <<>>, Aliases |-> <<>>]

\* No kill patterns asked for.
NoPatterns == [kill |-> <<>>, derived |-> <<>>]

NoOp == [name |-> "", names |-> <<>>, args |-> <<>>]
Op(name, names, args) == [name |-> name, names |-> names, args |-> args]

Init ==
  /\ goos \in Platforms
  /\ \/ \E c \in Configs :
          configFile = [state |-> "ok", Apps |-> c.Apps, Aliases |-> c.Aliases]
     \/ \E s \in BrokenStates :
          configFile = [state |-> s, Apps |-> <<>>, Aliases |-> <<>>]
  /\ running = {}
  /\ phase = "idle"
  /\ op = NoOp
  /\ err = nil
  /\ exit = 0
  /\ out = <<>>
  /\ cmds = <<>>
  /\ calls = <<>>
  /\ resolved = NotFound
  /\ patterns = NoPatterns
  /\ report = NoReport
  /\ customFile = NoFile
  /\ value = NoValue

World == [running |-> running, cmds |-> <<>>]

\* The environment: a process of the platform starts.
ProcStart ==
  /\ phase = "idle"
  /\ \E p \in Procs(goos) \ running : running' = running \cup {p}
  /\ UNCHANGED <<customFile, value, goos, configFile, phase, op, err, exit, out, cmds, calls, resolved, patterns, report>>

\* The environment: a process ends by itself.
ProcExit ==
  /\ phase = "idle"
  /\ \E p \in running : running' = running \ {p}
  /\ UNCHANGED <<customFile, value, goos, configFile, phase, op, err, exit, out, cmds, calls, resolved, patterns, report>>

\* An invocation that returned r = [err, out, w]
Returned(o, r) ==
  /\ phase' = "done"
  /\ op' = o
  /\ err' = r.err
  /\ out' = r.out
  /\ cmds' = r.w.cmds
  /\ running' = r.w.running
  /\ UNCHANGED <<customFile, value, goos, configFile>>

\* A batch that returned r = [err, out, w, calls]
ReturnedBatch(o, r) ==
  /\ Returned(o, r)
  /\ calls' = r.calls

\* A command-line invocation that ended with r = [exit, out, w, calls]
Exited(o, r) ==
  /\ phase' = "done"
  /\ op' = o
  /\ err' = nil
  /\ exit' = r.exit
  /\ out' = r.out
  /\ cmds' = r.w.cmds
  /\ running' = r.w.running
  /\ calls' = r.calls
  /\ UNCHANGED <<customFile, value, goos, configFile>>

DoResolve ==
  /\ phase = "idle"
  /\ \E t \in ResolveTokens :
       /\ resolved' = Resolve(goos, loadConfig(configFile).config, t)
       /\ phase' = "done"
       /\ op' = Op("Resolve", <<t>>, <<>>)
  /\ UNCHANGED <<customFile, value, goos, configFile, running, err, exit, out, cmds, calls, patterns, report>>

\* App.GetKillPatterns and App.deriveKillPatterns of an application of the
\* configuration
DoGetKillPatterns ==
  /\ phase = "idle"
  /\ configFile.state = "ok"
  /\ \E k \in DOMAIN configFile.Apps :
       /\ patterns' = [kill |-> GetKillPatterns(goos, configFile.Apps[k]),
                       derived |-> DeriveKillPatterns(goos, configFile.Apps[k])]
       /\ phase' = "done"
       /\ op' = Op("GetKillPatterns", <<k>>, <<>>)
  /\ UNCHANGED <<customFile, value, goos, configFile, running, err, exit, out, cmds, calls, resolved, report>>

\* RunDoctor(jsonOutput)
DoRunDoctor ==
  /\ phase = "idle"
  /\ \E j \in BOOLEAN :
       /\ report' = RunDoctor(goos, configFile, running, j).report
       /\ err' = RunDoctor(goos, configFile, running, j).err
       /\ out' = RunDoctor(goos, configFile, running, j).out
       /\ phase' = "done"
       /\ op' = Op("RunDoctor", <<>>, IF j THEN <<"json">> ELSE <<>>)
  /\ UNCHANGED <<customFile, value, goos, configFile, running, exit, cmds, calls, resolved, patterns>>

DoCloseApp ==
  /\ phase = "idle"
  /\ \E a \in Names, q \in QuitOutcomes(goos, running) :
       Returned(Op("CloseApp", <<a>>, <<>>), CloseApp(goos, configFile, World, q, a))
  /\ UNCHANGED <<exit, calls, resolved, patterns, report>>

DoCloseAppKillAll ==
  /\ phase = "idle"
  /\ \E a \in Names, q \in QuitOutcomes(goos, running) :
       Returned(Op("CloseAppKillAll", <<a>>, <<>>),
                CloseAppKillAll(goos, configFile, World, q, a))
  /\ UNCHANGED <<exit, calls, resolved, patterns, report>>

DoLaunchApp ==
  /\ phase = "idle"
  /\ \E a \in Names \cup DirectPaths, args \in LaunchArgs :
       Returned(Op("LaunchApp", <<a>>, args), LaunchApp(goos, configFile, World, a, args))
  /\ UNCHANGED <<exit, calls, resolved, patterns, report>>

DoCloseMultipleApps ==
  /\ phase = "idle"
  /\ \E b \in Batches, q \in QuitOutcomes(goos, running) :
       ReturnedBatch(Op("closeMultipleApps", b, <<>>),
                     closeMultipleApps(goos, configFile, World, q, b))
  /\ UNCHANGED <<exit, resolved, patterns, report>>

DoLaunchMultipleApps ==
  /\ phase = "idle"
  /\ \E b \in Batches :
       ReturnedBatch(Op("launchMultipleApps", b, <<>>),
                     launchMultipleApps(goos, configFile, World, b))
  /\ UNCHANGED <<exit, resolved, patterns, report>>

\* openx --kill alias... (at least one alias, else the usage is printed)
MainKill ==
  /\ phase = "idle"
  /\ configFile.state = "ok"
  /\ \E b \in Batches \ {<<>>}, q \in QuitOutcomes(goos, running) :
       Exited(Op("main --kill", b, <<>>), mainKill(goos, configFile, World, q, b))
  /\ UNCHANGED <<resolved, patterns, report>>

\* openx alias [args...]
MainLaunch ==
  /\ phase = "idle"
  /\ configFile.state = "ok"
  /\ \E t \in LaunchTokens, args \in LaunchArgs, o \in RunOutcomes :
       Exited(Op("main", <<t>>, args), mainLaunch(goos, configFile, World, o, t, args))
  /\ UNCHANGED <<resolved, patterns, report>>

\* The invocation is over; the next one starts from the machine as it is.
NextInvocation ==
  /\ phase = "done"
  /\ phase' = "idle"
  /\ op' = NoOp
  /\ err' = nil
  /\ exit' = 0
  /\ out' = <<>>
  /\ cmds' = <<>>
  /\ calls' = <<>>
  /\ resolved' = NotFound
  /\ patterns' = NoPatterns
  /\ report' = NoReport
  /\ value' = NoValue
  /\ UNCHANGED <<customFile, goos, configFile, running>>

Next ==
  \/ ProcStart
  \/ ProcExit
  \/ DoResolve
  \/ DoGetKillPatterns
  \/ DoRunDoctor
  \/ DoCloseApp
  \/ DoCloseAppKillAll
  \/ DoLaunchApp
  \/ DoCloseMultipleApps
  \/ DoLaunchMultipleApps
  \/ MainKill
  \/ MainLaunch
  \/ NextInvocation

Spec == Init /\ [][Next]_vars

(***************************************************************************)
(* The configuration as a YAML document (gopkg.in/yaml.v3).  A document is *)
(* [apps, aliases]: apps lists [key, fields] in key order, a field is a    *)
(* scalar or, for kill, a sequence; aliases lists [key, value].  A file    *)
(* of the model holds what the decoder makes of the document written.      *)
(***************************************************************************)
\* The keys of the paths in the order the encoder writes them.
SortedPlatforms == <<"darwin", "linux", "windows">>

\* The inlined Paths of an App, one scalar field a key
yamlPathFields(app, keys) ==
  [i \in 1..Len(keys) |->
     [key |-> keys[i], isSeq |-> FALSE, scalar |-> app.Paths[keys[i]], items |-> <<>>]]

\* An App that is encoded without its kill list
yamlAppFields_noKill(app) ==
  yamlPathFields(app, SelectSeq(SortedPlatforms, LAMBDA k : k \in DOMAIN app.Paths))

\* An App as the encoder writes it: kill unless empty (omitempty), then the
\* inlined paths
yamlAppFields(app) ==
  (IF Len(app.Kill) > 0
   THEN <<[key |-> "kill", isSeq |-> TRUE, scalar |-> <<>>, items |-> app.Kill]>>
   ELSE <<>>)
  \o yamlPathFields(app, SelectSeq(SortedPlatforms, LAMBDA k : k \in DOMAIN app.Paths))

yamlApps(apps, keys) ==
  [i \in 1..Len(keys) |-> [key |-> keys[i], fields |-> yamlAppFields(apps[keys[i]])]]

yamlAliases(aliases, keys) ==
  [i \in 1..Len(keys) |-> [key |-> keys[i], value |-> aliases[keys[i]]]]

\* yaml.Marshal(config)
yamlMarshal(config) ==
  [apps |-> yamlApps(config.Apps, SortStrings(DOMAIN config.Apps)),
   aliases |-> yamlAliases(config.Aliases, SortStrings(DOMAIN config.Aliases))]

\* The entry of the key in a list of the document.
yamlEntry(entries, k) == entries[CHOOSE i \in 1..Len(entries) : entries[i].key = k]

\* The decoder takes a sequence for kill and a scalar for every other key.
yamlValid(doc) ==
  \A i \in 1..Len(doc.apps) : \A j \in 1..Len(doc.apps[i].fields) :
     doc.apps[i].fields[j].isSeq <=> doc.apps[i].fields[j].key = "kill"

\* An App as the decoder reads it: kill into Kill, every other key into Paths
yamlDecodeApp(fields) ==
  [Paths |-> [k \in {fields[i].key : i \in 1..Len(fields)} \ {"kill"} |->
                yamlEntry(fields, k).scalar],
   Kill |-> IF \E i \in 1..Len(fields) : fields[i].key = "kill"
            THEN yamlEntry(fields, "kill").items
            ELSE <<>>]

\* yaml.Unmarshal(data, &config) of a valid document
yamlUnmarshal(doc) ==
  [Apps |-> [k \in {doc.apps[i].key : i \in 1..Len(doc.apps)} |->
               yamlDecodeApp(yamlEntry(doc.apps, k).fields)],
   Aliases |-> [k \in {doc.aliases[i].key : i \in 1..Len(doc.aliases)} |->
                  yamlEntry(doc.aliases, k).value]]

\* The file that holds the document: os.WriteFile / os.Create replace the
\* content.
fileOf(doc) ==
  IF yamlValid(doc)
  THEN [state |-> "ok", Apps |-> yamlUnmarshal(doc).Apps, Aliases |-> yamlUnmarshal(doc).Aliases]
  ELSE [state |-> "malformed", Apps |-> <<>>, Aliases |-> <<>>]

\* SaveConfig (the directory can be made and the file written)
saveConfig(config) == [err |-> nil, file |-> fileOf(yamlMarshal(config))]

(***************************************************************************)
(* EnsureConfig and the starter configuration.                             *)
(***************************************************************************)
\* The starter template, by its first application and its first alias (the
\* templates of the three platforms agree on them).
StarterConfig ==
  [Apps |-> (str_vscode :> AppTable[str_vscode]),
   Aliases |-> (str_code :> str_vscode)]

\* createStarterConfig
createStarterConfig(os) ==
  [err |-> nil,
   file |-> [state |-> "ok", Apps |-> StarterConfig.Apps, Aliases |-> StarterConfig.Aliases],
   out |-> <<Line("Config not found. Creating starter config at %s", <<>>),
             Line("Created starter config with common %s applications.", <<GoosChars(os)>>),
             Line("Edit %s to customize your environment.", <<>>)>>]

\* core.EnsureConfig: nothing to do for a file that is there
EnsureConfig(os, file) ==
  IF file.state # "missing" THEN [err |-> nil, file |-> file, out |-> <<>>]
  ELSE createStarterConfig(os)

(***************************************************************************)
(* The library instance NewWithConfig(p) (lib/main.go).  configFile is the *)
(* file at the default location, customFile the file at p.  A result is    *)
(* [err, out, file, custom, value].                                        *)
(***************************************************************************)
\* OpenX.loadConfig once core.EnsureConfig returned e: the file at
\* getConfigPath() is opened and decoded (the maps are left as decoded)
ox_loadConfigEnsured(custom, e) ==
  IF e.err # nil THEN [err |-> e.err, config |-> NoValue, file |-> e.file, out |-> e.out]
  ELSE IF custom.state = "missing"
  THEN [err |-> Err("open %s: no such file or directory", <<>>),
        config |-> NoValue, file |-> e.file, out |-> e.out]
  ELSE IF custom.state = "unreadable"
  THEN [err |-> Err("open %s: permission denied", <<>>),
        config |-> NoValue, file |-> e.file, out |-> e.out]
  ELSE IF custom.state = "malformed"
  THEN [err |-> Err("yaml: unmarshal errors", <<>>),
        config |-> NoValue, file |-> e.file, out |-> e.out]
  ELSE [err |-> nil, config |-> [Apps |-> custom.Apps, Aliases |-> custom.Aliases],
        file |-> e.file, out |-> e.out]

\* OpenX.loadConfig
ox_loadConfig(os, file, custom) == ox_loadConfigEnsured(custom, EnsureConfig(os, file))

\* OpenX.saveConfig: os.Create of getConfigPath() and Encode
ox_saveConfig(config) == fileOf(yamlMarshal(config))

\* The result of an operation of the instance that failed to load
loadFailed(custom, l) ==
  [err |-> ErrWrap("failed to load config: %w", <<>>, l.err.fmt),
   out |-> l.out, file |-> l.file, custom |-> custom, value |-> NoValue]

\* AddAlias that does not look for the application
addAliasLoaded_noCheck(custom, alias, appName, l) ==
  IF l.err # nil THEN loadFailed(custom, l)
  ELSE [err |-> nil, out |-> l.out, file |-> l.file,
        custom |-> ox_saveConfig([Apps |-> l.config.Apps,
                                  Aliases |-> (alias :> appName) @@ l.config.Aliases]),
        value |-> NoValue]

\* AddAlias once the configuration is loaded
addAliasLoaded(custom, alias, appName, l) ==
  IF l.err # nil THEN loadFailed(custom, l)
  ELSE IF appName \notin DOMAIN l.config.Apps
  THEN [err |-> Err("application '%s' is not configured", <<appName>>),
        out |-> l.out, file |-> l.file, custom |-> custom, value |-> NoValue]
  ELSE [err |-> nil, out |-> l.out, file |-> l.file,
        custom |-> ox_saveConfig([Apps |-> l.config.Apps,
                                  Aliases |-> (alias :> appName) @@ l.config.Aliases]),
        value |-> NoValue]

\* OpenX.AddAlias
AddAlias(os, file, custom, alias, appName) ==
  addAliasLoaded(custom, alias, appName, ox_loadConfig(os, file, custom))

\* RemoveAlias once the configuration is loaded
removeAliasLoaded(custom, alias, l) ==
  IF l.err # nil THEN loadFailed(custom, l)
  ELSE IF alias \notin DOMAIN l.config.Aliases
  THEN [err |-> Err("alias '%s' not found", <<alias>>),
        out |-> l.out, file |-> l.file, custom |-> custom, value |-> NoValue]
  ELSE [err |-> nil, out |-> l.out, file |-> l.file,
        custom |-> ox_saveConfig([Apps |-> l.config.Apps,
                                  Aliases |-> [k \in DOMAIN l.config.Aliases \ {alias} |->
                                                 l.config.Aliases[k]]]),
        value |-> NoValue]

\* OpenX.RemoveAlias
RemoveAlias(os, file, custom, alias) ==
  removeAliasLoaded(custom, alias, ox_loadConfig(os, file, custom))

\* ListAliases once the configuration is loaded
listAliasesLoaded(custom, l) ==
  IF l.err # nil THEN loadFailed(custom, l)
  ELSE [err |-> nil, out |-> l.out, file |-> l.file, custom |-> custom,
        value |-> [Apps |-> <<>>, Aliases |-> l.config.Aliases]]

\* OpenX.ListAliases
ListAliases(os, file, custom) == listAliasesLoaded(custom, ox_loadConfig(os, file, custom))

\* OpenX.RunAlias
RunAlias(os, file, w, alias, args) == LaunchApp(os, file, w, alias, args)

\* OpenX.Kill
Kill(os, file, w, q, alias) == CloseApp(os, file, w, q, alias)

\* OpenX.Doctor and OpenX.DoctorJSON
Doctor(os, file, procs, jsonOutput) == RunDoctor(os, file, procs, jsonOutput)

(***************************************************************************)
(* The library as a state machine: one instance NewWithConfig(p), and the  *)
(* core's SaveConfig on the default location.                              *)
(***************************************************************************)
\* Configurations of the file at p: no alias dangles, none is chained.
CustomConfigs ==
  {ConfigOf({str_testapp, str_vscode}, {}),
   ConfigOf({str_testapp, str_vscode}, {str_ta}),
   ConfigOf({str_testapp, str_vscode, str_notepad}, DOMAIN AliasTable)}

\* Alias names and application names given to AddAlias and RemoveAlias.
AliasNames == {str_ta, str_vs, str_testapp, str_empty}
AppNames == {str_testapp, str_vscode, str_ta, str_unknown}

LibInit ==
  /\ goos \in Platforms
  /\ configFile \in {NoFile,
                     [state |-> "ok", Apps |-> ConfigOf({str_testapp}, {}).Apps,
                      Aliases |-> ConfigOf({str_testapp}, {}).Aliases]}
  /\ \/ \E c \in CustomConfigs :
          customFile = [state |-> "ok", Apps |-> c.Apps, Aliases |-> c.Aliases]
     \/ \E s \in BrokenStates : customFile = [state |-> s, Apps |-> <<>>, Aliases |-> <<>>]
  /\ running = {}
  /\ phase = "idle"
  /\ op = NoOp
  /\ err = nil
  /\ exit = 0
  /\ out = <<>>
  /\ cmds = <<>>
  /\ calls = <<>>
  /\ resolved = NotFound
  /\ patterns = NoPatterns
  /\ report = NoReport
  /\ value = NoValue

\* An operation of the instance that returned r = [err, out, file, custom, value]
ReturnedLib(o, r) ==
  /\ phase' = "done"
  /\ op' = o
  /\ err' = r.err
  /\ out' = r.out
  /\ configFile' = r.file
  /\ customFile' = r.custom
  /\ value' = r.value
  /\ UNCHANGED <<goos, running, exit, cmds, calls, resolved, patterns, report>>

DoEnsureConfig ==
  /\ phase = "idle"
  /\ phase' = "done"
  /\ op' = Op("EnsureConfig", <<>>, <<>>)
  /\ err' = EnsureConfig(goos, configFile).err
  /\ out' = EnsureConfig(goos, configFile).out
  /\ configFile' = EnsureConfig(goos, configFile).file
  /\ UNCHANGED <<customFile, value, goos, running, exit, cmds, calls, resolved, patterns, report>>

DoAddAlias ==
  /\ phase = "idle"
  /\ \E a \in AliasNames, n \in AppNames :
       ReturnedLib(Op("AddAlias", <<a, n>>, <<>>), AddAlias(goos, configFile, customFile, a, n))

DoRemoveAlias ==
  /\ phase = "idle"
  /\ \E a \in AliasNames :
       ReturnedLib(Op("RemoveAlias", <<a>>, <<>>), RemoveAlias(goos, configFile, customFile, a))

DoListAliases ==
  /\ phase = "idle"
  /\ ReturnedLib(Op("ListAliases", <<>>, <<>>), ListAliases(goos, configFile, customFile))

DoRunAlias ==
  /\ phase = "idle"
  /\ \E a \in AliasNames, args \in LaunchArgs :
       Returned(Op("RunAlias", <<a>>, args), RunAlias(goos, configFile, World, a, args))
  /\ UNCHANGED <<exit, calls, resolved, patterns, report>>

DoKill ==
  /\ phase = "idle"
  /\ \E a \in AliasNames, q \in QuitOutcomes(goos, running) :
       Returned(Op("Kill", <<a>>, <<>>), Kill(goos, configFile, World, q, a))
  /\ UNCHANGED <<exit, calls, resolved, patterns, report>>

DoDoctor ==
  /\ phase = "idle"
  /\ \E j \in BOOLEAN :
       /\ report' = Doctor(goos, configFile, running, j).report
       /\ err' = Doctor(goos, configFile, running, j).err
       /\ out' = Doctor(goos, configFile, running, j).out
       /\ phase' = "done"
       /\ op' = Op("Doctor", <<>>, IF j THEN <<"json">> ELSE <<>>)
  /\ UNCHANGED <<customFile, value, goos, configFile, running, exit, cmds, calls, resolved, patterns>>

\* core.SaveConfig(config)
DoSaveConfig ==
  /\ phase = "idle"
  /\ \E c \in Configs :
       /\ value' = c
       /\ err' = saveConfig(c).err
       /\ configFile' = saveConfig(c).file
       /\ phase' = "done"
       /\ op' = Op("SaveConfig", <<>>, <<>>)
  /\ UNCHANGED <<customFile, goos, running, exit, out, cmds, calls, resolved, patterns, report>>

LibNext ==
  \/ DoEnsureConfig
  \/ DoAddAlias
  \/ DoRemoveAlias
  \/ DoListAliases
  \/ DoRunAlias
  \/ DoKill
  \/ DoDoctor
  \/ NextInvocation

LibSpec == LibInit /\ [][LibNext]_vars

(***************************************************************************)
(* Termination of one pattern: killByPattern and killAllByPattern called   *)
(* on a machine whose processes come and go.                               *)
(***************************************************************************)
\* Patterns given to killByPattern and killAllByPattern.
KillInputs == {str_testapp, str_Safari, str_unknown, str_empty}

\* The error of a kill command that failed (cmd.Run)
exitError(ok) == IF ok THEN nil ELSE Err("exit status 1", <<>>)

KillInit ==
  /\ Init
  /\ configFile = NoFile

\* A call that returned k = [w, ok]
ReturnedKill(o, k) ==
  /\ phase' = "done"
  /\ op' = o
  /\ err' = exitError(k.ok)
  /\ cmds' = k.w.cmds
  /\ running' = k.w.running
  /\ UNCHANGED <<customFile, value, goos, configFile, exit, out, calls, resolved, patterns, report>>

DoKillByPattern ==
  /\ phase = "idle"
  /\ \E pattern \in KillInputs, q \in QuitOutcomes(goos, running) :
       ReturnedKill(Op("killByPattern", <<pattern>>, <<>>),
                    killByPattern(goos, World, q, pattern))

DoKillAllByPattern ==
  /\ phase = "idle"
  /\ \E pattern \in KillInputs, q \in QuitOutcomes(goos, running) :
       ReturnedKill(Op("killAllByPattern", <<pattern>>, <<>>),
                    killAllByPattern(goos, World, q, pattern))

KillNext ==
  \/ ProcStart
  \/ ProcExit
  \/ DoKillByPattern
  \/ DoKillAllByPattern
  \/ NextInvocation

KillSpec == KillInit /\ [][KillNext]_vars

(***************************************************************************)
(* Saving and loading: SaveConfig of a configuration value over whatever   *)
(* the default location holds, and LoadConfig of what is there.            *)
(***************************************************************************)
\* core.LoadConfig
DoLoadConfig ==
  /\ phase = "idle"
  /\ value' = loadConfig(configFile).config
  /\ err' = loadConfig(configFile).err
  /\ phase' = "done"
  /\ op' = Op("LoadConfig", <<>>, <<>>)
  /\ UNCHANGED <<customFile, goos, configFile, running, exit, out, cmds, calls, resolved, patterns, report>>

SaveNext ==
  \/ DoSaveConfig
  \/ DoLoadConfig
  \/ NextInvocation

SaveSpec == Init /\ [][SaveNext]_vars

(***************************************************************************)
(* The vocabulary of the properties.                                       *)
(***************************************************************************)
\* An invocation of one of the operations in ops has returned.
Done(ops) == phase = "done" /\ configFile.state = "ok" /\ op.name \in ops

\* The two revisions of CloseApp.
CloseOps == {"CloseApp", "CloseAppKillAll"}

\* The name the invocation was given.
Given == op.names[1]

\* n is neither an application key nor an alias key.
IsUnknown(n) == n \notin DOMAIN configFile.Apps /\ n \notin DOMAIN configFile.Aliases

\* n is an alias key (and no application key) whose target is no application key.
IsDangling(n) ==
  /\ n \notin DOMAIN configFile.Apps
  /\ n \in DOMAIN configFile.Aliases
  /\ configFile.Aliases[n] \notin DOMAIN configFile.Apps

\* n is an application key or an alias of one.
ResolvesToApp(n) == ~IsUnknown(n) /\ ~IsDangling(n)

\* The application n stands for.
AppOf(n) ==
  IF n \in DOMAIN configFile.Apps THEN configFile.Apps[n]
  ELSE configFile.Apps[configFile.Aliases[n]]

\* The application has a launch path for the platform.
HasPath(os, app) == os \in DOMAIN app.Paths /\ app.Paths[os] # <<>>

\* A kill pattern of the application matches a process of procs.
SomePatternMatches(os, procs, app) ==
  \E i \in 1..Len(GetKillPatterns(os, app)) :
     isProcessRunning(os, procs, GetKillPatterns(os, app)[i])

\* The calls of a batch that failed.
FailedCalls(cs) == {i \in 1..Len(cs) : cs[i].err # nil}

\* A machine nothing runs on, and a quit request that fails.
Quiet == [running |-> {}, cmds |-> <<>>]
NoQuit == [quitOk |-> FALSE, stubborn |-> {}]

\* C1: when CloseApp returns without error for a configured application, no
\* running process matches any of the application's kill patterns.
C1_SuccessLeavesNoMatchingProcess ==
  (Done(CloseOps) /\ err = nil /\ ResolvesToApp(Given))
    => ~SomePatternMatches(goos, running, AppOf(Given))

\* C2: closeMultipleApps and launchMultipleApps call the per-target operation
\* for every name, in order, whatever failed before; the batch returns no
\* error exactly when no call failed, and else an error whose count is the
\* number of the targets that failed.
C2_BatchAttemptsEveryNameAndCounts ==
  Done({"closeMultipleApps", "launchMultipleApps"}) =>
    /\ Len(calls) = Len(op.names)
    /\ \A i \in 1..Len(op.names) :
         /\ calls[i].name = op.names[i]
         /\ calls[i].err =
              IF op.name = "closeMultipleApps"
              THEN CloseApp(goos, configFile, Quiet, NoQuit, op.names[i]).err
              ELSE LaunchApp(goos, configFile, Quiet, op.names[i], <<>>).err
    /\ (err = nil) <=> (FailedCalls(calls) = {})
    /\ err # nil =>
         err = ErrCount(IF op.name = "closeMultipleApps"
                        THEN "%d apps failed to close"
                        ELSE "%d apps failed to launch",
                        Cardinality(FailedCalls(calls)))

\* A batch of two whose first target failed and whose second was closed.
C2_Witness ==
  /\ Done({"closeMultipleApps"})
  /\ Len(calls) = 2
  /\ calls[1].err # nil
  /\ calls[2].err = nil
  /\ err = ErrCount("%d apps failed to close", 1)
  /\ cmds # <<>>

\* C3: openx --kill a1 ... an attempts to close every listed target, also
\* when closing an earlier one failed.
C3_KillAttemptsEveryTarget ==
  Done({"main --kill"}) =>
    /\ Len(calls) = Len(op.names)
    /\ \A i \in 1..Len(op.names) : calls[i].name = op.names[i]

\* C4: CloseApp of a name that is neither an application key nor an alias key
\* (the empty name included) fails with exactly "unknown app: <name>" and runs
\* no command.
C4_UnknownNameFailsWithoutCommand ==
  (Done(CloseOps) /\ IsUnknown(Given)) =>
    /\ err = Err("unknown app: %s", <<Given>>)
    /\ cmds = <<>>
    /\ out = <<>>

\* CloseApp of the empty name, with processes running, has failed.
C4_Witness ==
  /\ Done({"CloseApp"})
  /\ Given = str_empty
  /\ IsUnknown(Given)
  /\ err = Err("unknown app: %s", <<str_empty>>)
  /\ running # {}

\* C5 as stated: for an alias whose target is no application key, resolving,
\* closing and launching the alias each fail with
\* "alias '<alias>' points to unknown app '<target>'".
C5_DanglingAliasFailsEverywhere ==
  (Done(CloseOps \cup {"LaunchApp", "Resolve"}) /\ IsDangling(Given)) =>
    /\ err = Err("alias '%s' points to unknown app '%s'",
                 <<Given, configFile.Aliases[Given]>>)
    /\ cmds = <<>>

\* C5 amended: closing and launching such an alias fail with that message
\* and run no command; Resolve does not read the alias table and has no error
\* to return: it reports the token as not found, unless the token in lower
\* case, or the synonym of that, is itself an application key.
C5_DanglingAliasFailsOnCloseAndLaunch ==
  /\ (Done(CloseOps \cup {"LaunchApp"}) /\ IsDangling(Given)) =>
       /\ err = Err("alias '%s' points to unknown app '%s'",
                    <<Given, configFile.Aliases[Given]>>)
       /\ cmds = <<>>
  /\ (Done({"Resolve"}) /\ IsDangling(Given)) =>
       /\ err = nil
       /\ \/ resolved = NotFound
          \/ ToLower(Given) \in DOMAIN configFile.Apps
          \/ /\ ToLower(Given) \in DOMAIN synonyms
             /\ synonyms[ToLower(Given)] \in DOMAIN configFile.Apps

\* CloseApp of the alias ta, whose target testapp is not configured, has failed.
C5_Witness ==
  /\ Done({"CloseApp"})
  /\ Given = str_ta
  /\ IsDangling(str_ta)
  /\ err = Err("alias '%s' points to unknown app '%s'", <<str_ta, str_testapp>>)

\* C6: CloseApp of a configured application none of whose kill patterns
\* matches a running process returns no error and reports that nothing was
\* running; it never reports processes as killed.
C6_NothingRunningIsReportedSo ==
  [][(/\ phase = "idle"
      /\ Done(CloseOps)'
      /\ ResolvesToApp(Given')
      /\ GetKillPatterns(goos, AppOf(Given')) # <<>>
      /\ ~SomePatternMatches(goos, running, AppOf(Given')))
     => (/\ err' = nil
         /\ out' = <<Line("No running processes found for: %s", <<Given'>>)>>)]_vars

\* The application has no kill list and no launch path for the platform.
NoPatternSource(os, app) == app.Kill = <<>> /\ ~HasPath(os, app)

\* C7: CloseApp of a configured application with no kill list and no launch
\* path for the platform fails with "no kill patterns available" and runs no
\* command; with a kill list and no launch path it goes on to terminate by
\* the patterns of the list.
C7_NoPatternsErrorAndExplicitListUsed ==
  (Done(CloseOps) /\ ResolvesToApp(Given)) =>
    /\ NoPatternSource(goos, AppOf(Given)) =>
         /\ err = Err("no kill patterns available for %s", <<Given>>)
         /\ cmds = <<>>
    /\ (AppOf(Given).Kill # <<>> /\ ~HasPath(goos, AppOf(Given))) =>
         /\ err = nil
         /\ cmds # <<>>
         /\ cmds[1].target \in {AppOf(Given).Kill[1], AppOf(Given).Kill[1] \o str_dot_exe}
         /\ \A i \in 1..Len(cmds) : \E j \in 1..Len(AppOf(Given).Kill) :
              cmds[i].target \in {AppOf(Given).Kill[j], AppOf(Given).Kill[j] \o str_dot_exe}

\* CloseApp of notepad, configured without kill list and without a path for
\* the platform, has failed.
C7_Witness ==
  /\ Done({"CloseApp"})
  /\ Given = str_notepad
  /\ str_notepad \in DOMAIN configFile.Apps
  /\ NoPatternSource(goos, configFile.Apps[str_notepad])
  /\ err = Err("no kill patterns available for %s", <<str_notepad>>)
  /\ running # {}

\* C8 as stated: CloseApp of every name that resolves to a configured
\* application returns no error.
C8_ConfiguredAppAlwaysCloses ==
  (Done(CloseOps) /\ ResolvesToApp(Given)) => err = nil

\* C8 amended: CloseApp returns an error exactly for unknown names, aliases of
\* a missing application, and configured applications with neither a kill
\* list nor a launch path for the platform; for every name that resolves to
\* an application with a kill pattern it returns no error.
C8_CloseFailsOnlyWithoutAppOrPatterns ==
  Done(CloseOps) =>
    ((err # nil) <=> \/ IsUnknown(Given)
                     \/ IsDangling(Given)
                     \/ NoPatternSource(goos, AppOf(Given)))

\* CloseApp of the alias ta of the configured testapp has run kill commands
\* and returned no error.
C8_Witness ==
  /\ Done({"CloseApp"})
  /\ Given = str_ta
  /\ ResolvesToApp(str_ta)
  /\ ~NoPatternSource(goos, AppOf(str_ta))
  /\ err = nil
  /\ cmds # <<>>

\* C9: for every application key k, in any spelling, with a path for the
\* platform, Resolve(k) is (that path, true), and so is Resolve(s) for every
\* built-in synonym s of k.
C9_KeyAndSynonymsResolveToPath ==
  Done({"Resolve"}) =>
    \A k \in DOMAIN configFile.Apps :
      (/\ HasPath(goos, configFile.Apps[k])
       /\ \/ Given = k
          \/ Given \in DOMAIN synonyms /\ synonyms[Given] = k)
      => resolved = [target |-> configFile.Apps[k].Paths[goos], found |-> TRUE]

\* C10: Resolve does not depend on the case of its token: the token in upper
\* case, in lower case and capitalised resolve to what the token resolved to.
C10_ResolveIgnoresCase ==
  Done({"Resolve"}) =>
    /\ resolved = Resolve(goos, configFile, ToUpper(Given))
    /\ resolved = Resolve(goos, configFile, ToLower(Given))
    /\ resolved = Resolve(goos, configFile, Capitalize(Given))

\* The key vscode, given in upper case, resolved to its path.
C10_Witness ==
  /\ Done({"Resolve"})
  /\ Given = ToUpper(str_vscode)
  /\ resolved.found
  /\ resolved.target = configFile.Apps[str_vscode].Paths[goos]

\* The application a GetKillPatterns invocation was about.
AskedApp == configFile.Apps[Given]

\* The base name of the launch path of the application, for the platform.
LaunchBase(os, app) == Base(os, GetLaunchPath(os, app))

\* C13: for an application with a launch path, derivation yields exactly one
\* pattern, fixed by the base name of the path: on macOS the mapped process
\* name for a bundle of the exception table and the bundle name without .app
\* for another bundle; on Windows the base name without .exe; on Linux the
\* base name as it is.
C13_DerivationByPlatform ==
  (Done({"GetKillPatterns"}) /\ HasPath(goos, AskedApp)) =>
    /\ Len(patterns.derived) = 1
    /\ goos = "darwin" =>
         /\ LaunchBase(goos, AskedApp) = str_VisualStudioCode \o str_dot_app
              => patterns.derived = <<str_Code>>
         /\ (/\ HasSuffix(LaunchBase(goos, AskedApp), str_dot_app)
             /\ \A b \in DOMAIN ProcessNameExceptions :
                  LaunchBase(goos, AskedApp) # b \o str_dot_app)
              => patterns.derived[1] \o str_dot_app = LaunchBase(goos, AskedApp)
         /\ Given = str_Chrome => patterns.derived = <<str_GoogleChrome>>
         /\ Given = str_myapp => patterns.derived = <<str_MyApp>>
         /\ Given = str_word => patterns.derived = <<str_MicrosoftWord>>
    /\ goos = "windows" =>
         /\ HasSuffix(LaunchBase(goos, AskedApp), str_dot_exe)
              => patterns.derived[1] \o str_dot_exe = LaunchBase(goos, AskedApp)
         /\ ~HasSuffix(LaunchBase(goos, AskedApp), str_dot_exe)
              => patterns.derived[1] = LaunchBase(goos, AskedApp)
         /\ Given = str_myapp => patterns.derived = <<str_app>>
         /\ Given = str_word => patterns.derived = <<str_WINWORD_EXE>>
    /\ goos = "linux" =>
         /\ patterns.derived = <<LaunchBase(goos, AskedApp)>>
         /\ Given = str_myapp => patterns.derived = <<str_firefox>>
         /\ Given = str_Chrome => patterns.derived = <<str_google_chrome>>

\* On macOS the bundle of vscode, a name of the exception table, gave Code.
C13_Witness ==
  /\ Done({"GetKillPatterns"})
  /\ goos = "darwin"
  /\ Given = str_vscode
  /\ patterns.derived = <<str_Code>>

\* C14: GetKillPatterns of an application with a non-empty kill list is that
\* list, in its order, whatever the launch path; it is the derived list only
\* when the kill list is empty.  Reached through a name or an alias, CloseApp
\* on Linux signals by the patterns of the list, in their order.
C14_ExplicitListTakesPrecedence ==
  /\ Done({"GetKillPatterns"}) =>
       patterns.kill = IF AskedApp.Kill # <<>> THEN AskedApp.Kill ELSE patterns.derived
  /\ (Done(CloseOps) /\ goos = "linux" /\ ResolvesToApp(Given)
                     /\ AppOf(Given).Kill # <<>>) =>
       /\ Len(cmds) \in 1..Len(AppOf(Given).Kill)
       /\ \A i \in 1..Len(cmds) : cmds[i].target = AppOf(Given).Kill[i]

\* The kill list of testapp was returned, not the name derived from its path.
C14_Witness ==
  /\ Done({"GetKillPatterns"})
  /\ Given = str_testapp
  /\ patterns.kill = <<str_TestApp, str_testapp>>
  /\ patterns.derived # <<>>
  /\ patterns.derived # patterns.kill

\* The records of the report with the status s.
RecordsWith(s) == {i \in 1..Len(report.Apps) : report.Apps[i].Status = s}

\* The records of the report marked running.
RecordsRunning == {i \in 1..Len(report.Apps) : report.Apps[i].Running}

\* C15: in every doctor report the total is the number of configured
\* applications and of records, available + missing is at most the total,
\* total - available - missing is the number of no-path records, and running
\* is the number of records marked running.
C15_SummaryCountsTheRecords ==
  (Done({"RunDoctor"}) /\ err = nil) =>
    /\ report.Summary.Total = Cardinality(DOMAIN configFile.Apps)
    /\ report.Summary.Total = Len(report.Apps)
    /\ {report.Apps[i].Name : i \in 1..Len(report.Apps)} = DOMAIN configFile.Apps
    /\ report.Summary.Available + report.Summary.Missing <= report.Summary.Total
    /\ report.Summary.Available = Cardinality(RecordsWith("available"))
    /\ report.Summary.Missing = Cardinality(RecordsWith("missing"))
    /\ report.Summary.Total - report.Summary.Available - report.Summary.Missing
         = Cardinality(RecordsWith("no-path"))
    /\ report.Summary.Running = Cardinality(RecordsRunning)

\* A report with available, missing, no-path and running applications.
C15_Witness ==
  /\ Done({"RunDoctor"})
  /\ report.Summary.Available >= 1
  /\ report.Summary.Missing >= 1
  /\ report.Summary.Running >= 1
  /\ report.Summary.Total > report.Summary.Available + report.Summary.Missing

\* The path has a separator.
HasSeparator(path) == \E i \in 1..Len(path) : path[i] \in {"/", "\\"}

\* The existence check of the path: the file system for a path with a
\* separator, the executable search path for a command.
PathChecks(os, path) ==
  IF HasSeparator(path) THEN path \in ExecutableFiles(os) \cup Directories(os)
  ELSE path \in PathCommands(os)

\* C16: doctor gives each application exactly one status: no-path iff it has
\* no path for the platform, available iff it has one and the existence
\* check succeeds, missing iff it has one and the check fails; and it returns
\* no error for any of them.
C16_StatusClassification ==
  Done({"RunDoctor"}) =>
    /\ err = nil
    /\ \A i \in 1..Len(report.Apps) :
         /\ report.Apps[i].Status \in {"no-path", "available", "missing"}
         /\ report.Apps[i].Status = "no-path"
              <=> ~HasPath(goos, configFile.Apps[report.Apps[i].Name])
         /\ report.Apps[i].Status = "available"
              <=> /\ HasPath(goos, configFile.Apps[report.Apps[i].Name])
                  /\ PathChecks(goos, GetLaunchPath(goos, configFile.Apps[report.Apps[i].Name]))
         /\ report.Apps[i].Status = "missing"
              <=> /\ HasPath(goos, configFile.Apps[report.Apps[i].Name])
                  /\ ~PathChecks(goos, GetLaunchPath(goos, configFile.Apps[report.Apps[i].Name]))

\* A report with a command found on the search path, a bundle found in the
\* file system and an application without path.
C16_Witness ==
  /\ Done({"RunDoctor"})
  /\ \E i, j \in 1..Len(report.Apps) :
       /\ report.Apps[i].Status = "available"
       /\ ~HasSeparator(report.Apps[i].LaunchPath)
       /\ report.Apps[j].Status = "no-path"
  /\ RecordsWith("missing") # {}

\* C17: the running flag of a record is true iff a kill pattern of the
\* application, explicit or derived, matches a running process, whatever the
\* status: available, missing, or no-path with an explicit kill list.
C17_RunningIffPatternMatches ==
  (Done({"RunDoctor"}) /\ err = nil) =>
    \A i \in 1..Len(report.Apps) :
      report.Apps[i].Running
        <=> SomePatternMatches(goos, running, configFile.Apps[report.Apps[i].Name])

\* What the resolver makes of the token of the command line.
Resolved == Resolve(goos, configFile, Given)

\* C11: for every token without path separator that the resolver resolves,
\* launching the token from the command line launches the resolved target:
\* it does not fail with "unknown app", and where the target can be started
\* it is what is spawned.
C11_LaunchAgreesWithResolver ==
  (Done({"main"}) /\ ~HasSeparator(Given) /\ Resolved.found) =>
    /\ Len(calls) = 1
    /\ calls[1].err.fmt # "unknown app: %s"
    /\ (goos = "darwin" \/ CanStart(goos, Resolved.target)) =>
         /\ exit = 0
         /\ Len(cmds) = 1
         /\ goos # "darwin" => cmds[1].target = Resolved.target

\* The token is an alias of a configured application with a path.
IsAliasWithPath(n) ==
  /\ n \notin DOMAIN configFile.Apps
  /\ n \in DOMAIN configFile.Aliases
  /\ configFile.Aliases[n] \in DOMAIN configFile.Apps
  /\ HasPath(goos, configFile.Apps[configFile.Aliases[n]])

\* C12: a token that is an alias of the configuration whose application has
\* a path for the platform is launched from the command line as that
\* application, with the remaining arguments; it never goes to the opener
\* or to the token-as-application fallback.
C12_ConfiguredAliasIsLaunched ==
  (Done({"main"}) /\ IsAliasWithPath(Given)) =>
    /\ Len(calls) = 1
    /\ calls[1].name = Given
    /\ \A i \in 1..Len(cmds) :
         /\ ~cmds[i].wait
         /\ cmds[i].args = resolveTargets(goos, op.args)

\* The check of the command line: the token in lower case is an application
\* key, or the resolver resolves the token.
CliResolves(t) ==
  \/ ToLower(t) \in DOMAIN configFile.Apps
  \/ Resolve(goos, configFile, t).found

\* The commands of the system default opener for the target.
OpenerCommands(os, target) ==
  IF os = "darwin" THEN {<<RunCmdArgs("open", target, <<>>)>>}
  ELSE IF os = "linux"
  THEN {<<RunCmdArgs("xdg-open", target, <<>>)>>,
        <<RunCmdArgs("xdg-open", target, <<>>), RunCmdArgs("gio open", target, <<>>)>>}
  ELSE {<<RunCmdArgs("cmd /c start", target, <<>>)>>}

\* The commands that run the token as an application with arguments.
AppWithArgsCommands(os, app, args) ==
  IF os = "darwin" THEN {<<RunCmdArgs("open -a", app, args)>>}
  ELSE {<<>>, <<RunCmdArgs("exec", app, args)>>}

C20_LaunchFailuresAreDistinct ==
  (Done({"LaunchApp"}) /\ ~HasSeparator(Given)) =>
    /\ IsUnknown(Given) =>
         /\ err = Err("unknown app: %s", <<Given>>)
         /\ cmds = <<>>
    /\ (ResolvesToApp(Given) /\ ~HasPath(goos, AppOf(Given))) =>
         /\ err = Err("no launch path configured for %s on %s", <<Given, GoosChars(goos)>>)
         /\ cmds = <<>>
    /\ err.fmt = "unknown app: %s" => IsUnknown(Given)
    /\ err.fmt = "no launch path configured for %s on %s" =>
         ResolvesToApp(Given) /\ ~HasPath(goos, AppOf(Given))

\* An alias of an application without a path for the platform was launched.
C20_Witness ==
  /\ Done({"LaunchApp"})
  /\ Given \in DOMAIN configFile.Aliases
  /\ Given \notin DOMAIN configFile.Apps
  /\ ResolvesToApp(Given)
  /\ ~HasPath(goos, AppOf(Given))
  /\ err.fmt = "no launch path configured for %s on %s"
  /\ cmds = <<>>

\* The path is there: a file or a directory of the platform.
PathIsThere(path) == path \in ExecutableFiles(goos) \cup Directories(goos)

\* The one command of a direct launch of path with args: the path itself, or
\* on macOS the executable inside the bundle or the open command on the path;
\* started and not waited for, with the resolved arguments.
IsDirectLaunchOf(cmd, path, args) ==
  /\ ~cmd.wait
  /\ cmd.args = resolveTargets(goos, args)
  /\ IF goos = "darwin"
     THEN \/ cmd.prog = "open -a" /\ cmd.target = path
          \/ cmd.prog = "exec" /\ HasPrefix(cmd.target, path)
     ELSE cmd.prog = "exec" /\ cmd.target = path

IsFlag(arg) == arg # <<>> /\ arg[1] = "-"

\* The argument names a file or directory that is there, once expanded from
\* the home and the working directory.
NamesExistingPath(arg) ==
  PathIsThere(absolute(goos, expandDot(goos, expandTilde(arg))))

\* C21: the command LaunchApp spawns for a configured application gets as
\* many arguments as were given, in their order, and an argument that is a
\* flag, a URL or the name of nothing that exists reaches it unchanged.
C21_OnlyExistingPathsAreRewritten ==
  (Done({"LaunchApp"}) /\ ~HasSeparator(Given) /\ err = nil /\ cmds # <<>>) =>
    /\ Len(cmds[1].args) = Len(op.args)
    /\ \A i \in 1..Len(op.args) :
         (IsFlag(op.args[i]) \/ isURL(op.args[i]) \/ ~NamesExistingPath(op.args[i]))
           => cmds[1].args[i] = op.args[i]

\* The command is a system launcher that hands its target over and exits,
\* so that waiting for it is not waiting for the application.
HandsOver(cmd) == cmd.prog \in {"open", "open -a", "xdg-open", "gio open", "cmd /c start"}

\* C22: no launch waits for the child it spawned: every command of a
\* configured or direct-path launch, of the system default opener and of the
\* application-with-arguments fallback is started and not waited for, unless
\* it is a system launcher that exits once it has handed the target over.
C22_NoLaunchWaitsForTheChild ==
  (Done({"LaunchApp", "launchMultipleApps", "main"})) =>
    \A i \in 1..Len(cmds) : cmds[i].wait => HandsOver(cmds[i])

\* The message of loadConfig for a file it cannot load.
LoadFailure ==
  IF configFile.state = "missing"
  THEN "config file not found at %s (run 'openx doctor' to create it)"
  ELSE IF configFile.state = "unreadable" THEN "failed to read config file: %w"
  ELSE "failed to parse config file: %w"

\* C23: with a configuration file that is missing, unreadable or malformed,
\* LaunchApp of a name without separator, CloseApp and RunDoctor fail with
\* "failed to load config" wrapping the cause, run no command (no spawn, no
\* termination), print nothing and produce no report.
C23_BrokenConfigIsFatal ==
  (/\ phase = "done"
   /\ configFile.state \in BrokenStates
   /\ \/ op.name \in CloseOps \cup {"RunDoctor"}
      \/ op.name = "LaunchApp" /\ ~HasSeparator(Given)) =>
    /\ err = ErrWrap("failed to load config: %w", <<>>, LoadFailure)
    /\ cmds = <<>>
    /\ out = <<>>
    /\ report = NoReport

\* CloseApp was asked to close a name while the file is malformed and a
\* process runs.
C23_Witness ==
  /\ phase = "done"
  /\ configFile.state = "malformed"
  /\ op.name = "CloseApp"
  /\ running # {}
  /\ err.cause = "failed to parse config file: %w"

\* C24: what SaveConfig wrote is loaded again as the configuration that was
\* saved: the same application keys, for each the same paths by platform and
\* the same kill patterns in the same order, and the same aliases; nothing
\* of what the file held before is left.
C24_SaveThenLoadIsTheSame ==
  (phase = "done" /\ op.name = "SaveConfig" /\ err = nil) =>
    /\ loadConfig(configFile).err = nil
    /\ DOMAIN loadConfig(configFile).config.Apps = DOMAIN value.Apps
    /\ \A k \in DOMAIN value.Apps :
         /\ loadConfig(configFile).config.Apps[k].Paths = value.Apps[k].Paths
         /\ loadConfig(configFile).config.Apps[k].Kill = value.Apps[k].Kill
    /\ loadConfig(configFile).config.Aliases = value.Aliases

\* A configuration with a kill list of two patterns, an application without
\* one and aliases was saved.
C24_Witness ==
  /\ phase = "done"
  /\ op.name = "SaveConfig"
  /\ err = nil
  /\ \E k \in DOMAIN value.Apps : Len(value.Apps[k].Kill) = 2
  /\ \E k \in DOMAIN value.Apps : value.Apps[k].Kill = <<>>
  /\ DOMAIN value.Aliases # {}
  /\ configFile.state = "ok"

\* The name is an application of the file at p, or an alias of one.
InCustomFile(n) ==
  \/ n \in DOMAIN customFile.Apps
  \/ n \in DOMAIN customFile.Aliases /\ customFile.Aliases[n] \in DOMAIN customFile.Apps

\* C25: an operation of an instance made with NewWithConfig(p) works on the
\* file at p alone: it leaves the file at the default location as it was
\* (it does not create it), and RunAlias and Kill find every application
\* and alias of the file at p.
C25_InstanceUsesOnlyItsPath ==
  [][(phase = "idle" /\ phase' = "done") =>
       /\ configFile' = configFile
       /\ (op'.name \in {"RunAlias", "Kill"} /\ customFile.state = "ok"
           /\ InCustomFile(op'.names[1]))
            => err'.fmt \notin {"unknown app: %s", "failed to load config: %w"}]_vars

\* Every alias of the file at p names an application of the file.
AliasesPointAtApps ==
  \A a \in DOMAIN customFile.Aliases : customFile.Aliases[a] \in DOMAIN customFile.Apps

\* A step of AddAlias or RemoveAlias keeps the applications; AddAlias with a
\* name that is no application key, and RemoveAlias of an alias that is not
\* there, fail and leave the file as it was.
AliasStep ==
  (phase = "idle" /\ phase' = "done" /\ op'.name \in {"AddAlias", "RemoveAlias"}) =>
    /\ customFile'.Apps = customFile.Apps
    /\ (op'.name = "AddAlias" /\ op'.names[2] \notin DOMAIN customFile.Apps) =>
         (err' # nil /\ customFile' = customFile)
    /\ (op'.name = "RemoveAlias" /\ op'.names[1] \notin DOMAIN customFile.Aliases) =>
         (err' # nil /\ customFile' = customFile)

\* C26: from a file at p without dangling or chained aliases, every alias of
\* the file names an application key of the file after any sequence of
\* AddAlias and RemoveAlias; AddAlias to a name that is no application key
\* (an alias, for one) and RemoveAlias of an absent alias fail and change
\* nothing, and neither changes the applications.
C26_AliasesStayDirect == []AliasesPointAtApps /\ [][AliasStep]_vars

\* AddAlias was refused an alias as the target, in a file that holds
\* aliases added before.
C26_Witness ==
  /\ phase = "done"
  /\ op.name = "AddAlias"
  /\ customFile.state = "ok"
  /\ op.names[2] \in DOMAIN customFile.Aliases
  /\ op.names[2] \notin DOMAIN customFile.Apps
  /\ str_vs \in DOMAIN customFile.Aliases
  /\ str_empty \in DOMAIN customFile.Aliases
  /\ err = Err("application '%s' is not configured", <<op.names[2]>>)

\* The executable findAppExecutable finds for the launch path of the name.
BundleExecutable == findAppExecutable("darwin", GetLaunchPath("darwin", AppOf(Given)))

\* C27: on macOS a configured application is launched by the executable
\* inside its bundle when there is one, with the arguments; the open command
\* is used only when there is none, and then the arguments follow the
\* argument separator: open <bundle> --args <arguments>.
C27_BundleFallbackChain ==
  (Done({"LaunchApp"}) /\ goos = "darwin" /\ ~HasSeparator(Given)
   /\ ResolvesToApp(Given) /\ HasPath(goos, AppOf(Given))) =>
    IF BundleExecutable.found
    THEN cmds = <<StartCmd("exec", BundleExecutable.path, resolveTargets(goos, op.args))>>
    ELSE /\ Len(cmds) = 1
         /\ cmds[1].target = GetLaunchPath("darwin", AppOf(Given))
         /\ cmds[1].args = resolveTargets(goos, op.args)
         /\ op.args # <<>> => cmds[1].prog = "open --args"

\* The two terminations of one pattern.
KillOps == {"killByPattern", "killAllByPattern"}

\* C28: on macOS the termination of one pattern asks the application to quit
\* first and forces only after that; when it has run, either the force
\* command was issued or no process matches the pattern, and it reports the
\* pattern as handled only when no process matches it any more.
C28_QuitThenForceUntilNoneIsLeft ==
  (phase = "done" /\ op.name \in KillOps /\ goos = "darwin") =>
    /\ cmds # <<>>
    /\ cmds[1] = RunCmd("osascript", Given)
    /\ \A i \in 2..Len(cmds) : i = 2 /\ cmds[i] = RunCmd("pkill", Given)
    /\ Len(cmds) = 1 => PgrepMatches(running, Given) = {}
    /\ err = nil => PgrepMatches(running, Given) = {}

\* C29: killByPattern and killAllByPattern return no error when no running
\* process matches the pattern, on every platform.
C29_NoMatchIsNoError ==
  [][(phase = "idle" /\ phase' = "done" /\ op'.name \in KillOps
      /\ ~isProcessRunning(goos, running, op'.names[1]))
       => err' = nil]_vars

\* C30: on Linux openWithSystemDefault runs xdg-open first and gio open only
\* after xdg-open failed, each at most once, and it succeeds when xdg-open
\* succeeded (no gio open followed).
C30_XdgOpenThenGioOpen ==
  (Done({"main"}) /\ goos = "linux" /\ cmds # <<>> /\ cmds[1].prog = "xdg-open") =>
    /\ \A i \in 2..Len(cmds) : i = 2 /\ cmds[i] = RunCmdArgs("gio open", cmds[1].target, <<>>)
    /\ Len(cmds) = 1 => exit = 0

====
